---- MODULE Spec2Model ----
(***************************************************************************)
(* A model of the GitHub repository maintainer agent: the failure-log      *)
(* acquisition pipeline of github_client.py (check runs, workflow-run      *)
(* correlation, log download, log trimming, rate-limited code search) and  *)
(* the scan loop of agent.py.                                              *)
(*                                                                         *)
(* Text is modelled as a sequence of tokens: "\n" is a line break, " " is  *)
(* a run of blanks, Marker is one occurrence of the completion marker and  *)
(* every other token is a word without white space.                        *)
(***************************************************************************)
EXTENDS Integers, Sequences, FiniteSets, TLC

VARIABLES
    log_content,    \* _extract_last_lines_before_completion: the text given
    last_lines,     \* _extract_last_lines_before_completion: the text returned
    trim_pc,        \* "idle" | "call" | "done"
    platform,       \* what the GitHub API answers to each request
    call,           \* the GitHubClient method under way and its arguments
    ret,            \* what the method returned or raised, and the requests it sent
    client_pc,      \* "idle" | "call" | "sleep" | "done"
    attempts,       \* search_code_in_repo: the outcome of each attempt made
    responses,      \* search_code_in_repo: the status the search request got at each attempt
    slept,          \* search_code_in_repo: the waits between attempts, in seconds
    environ,        \* process_all: the token variables of the environment
    github_clients, \* process_all: RepoMaintainerAgent._github_clients
    dry_run,        \* process_all: RepoMaintainerAgent.dry_run
    repos,          \* process_all: the repositories left after filtering
    repo_idx,       \* process_all: the place of the outer loop
    pr_idx,         \* process_all: the place of the inner loop
    total_prs,      \* process_all: total_prs
    total_issues,   \* process_all: total_issues
    last,           \* process_all: what the latest loop iteration did
    scan_pc,        \* "idle" | "start" | "repo" | "pr" | "check" | "done" | "raised"
    code_checks,    \* check_code_patterns: the checks loaded from the configuration
    check_idx,      \* check_code_patterns: the place of the inner loop
    total_checks,   \* check_code_patterns: total_checks
    total_matches,  \* check_code_patterns: total_matches
    checked         \* check_code_patterns: what the latest loop iteration did

trimVars == <<log_content, last_lines, trim_pc>>

clientVars == <<platform, call, ret, client_pc>>

retryVars == <<attempts, responses, slept>>

checkVars == <<code_checks, check_idx, total_checks, total_matches, checked>>

scanVars == <<environ, github_clients, dry_run, repos, repo_idx, pr_idx, total_prs,
              total_issues, last, scan_pc, checkVars>>

vars == <<trimVars, clientVars, retryVars, scanVars>>

----------------------------------------------------------------------------
(* Bounds of the model *)

\* the longest log body drawn, in lines
MaxLogLines == 22
\* the most lines drawn between two completion markers
MaxMidLines == 2
\* workflow runs of the platform are numbered 1..MaxRunId
MaxRunId == 2
\* the longest list of candidate runs handed to the validation
MaxCandidates == 3
\* the longest list of recent workflow runs the platform answers
MaxRecent == 2
\* the most check runs in the response for one commit
MaxRuns == 3

MaxItems == 2

MaxRepos == 2

MaxPRs == 2
\* the most entries in the open-issues listing
MaxIssues == 2
\* the most pages of the open-issues listing
MaxPages == 2
\* the most members of a Link header
MaxLinks == 2

\* the most checks of a configuration file
MaxChecks == 2

----------------------------------------------------------------------------
(* Python's str operations, on token sequences *)

Marker == "##[error]Process completed with exit code 1"

IsSpace(c) == c \in {"\n", " "}

RECURSIVE lstrip(_)
lstrip(s) ==
    IF s = <<>> THEN <<>>
    ELSE IF IsSpace(Head(s)) THEN lstrip(Tail(s)) ELSE s

RECURSIVE rstrip(_)
rstrip(s) ==
    IF s = <<>> THEN <<>>
    ELSE IF IsSpace(s[Len(s)]) THEN rstrip(SubSeq(s, 1, Len(s) - 1)) ELSE s

strip(s) == rstrip(lstrip(s))

\* str.splitlines(): the lines without their line breaks; a final line break
\* opens no further line
RECURSIVE splitlinesFrom(_, _, _)
splitlinesFrom(s, i, cur) ==
    IF i > Len(s) THEN (IF cur = <<>> THEN <<>> ELSE <<cur>>)
    ELSE IF s[i] = "\n" THEN <<cur>> \o splitlinesFrom(s, i + 1, <<>>)
    ELSE splitlinesFrom(s, i + 1, Append(cur, s[i]))

splitlines(s) == splitlinesFrom(s, 1, <<>>)

\* "\n".join(lines)
RECURSIVE join(_)
join(lines) ==
    IF lines = <<>> THEN <<>>
    ELSE IF Len(lines) = 1 THEN lines[1]
    ELSE lines[1] \o <<"\n">> \o join(Tail(lines))

\* the start of the rightmost match, 0 when there is none
RECURSIVE searchBack(_, _)
searchBack(s, i) ==
    IF i = 0 THEN 0
    ELSE IF s[i] = Marker THEN i ELSE searchBack(s, i - 1)

search_rightmost(s) == searchBack(s, Len(s))

\* pattern.search(text): the start of the leftmost match, 0 when there is none
RECURSIVE searchFrom(_, _)
searchFrom(s, i) ==
    IF i > Len(s) THEN 0
    ELSE IF s[i] = Marker THEN i ELSE searchFrom(s, i + 1)

search(s) == searchFrom(s, 1)

\* lines[:n], the slice a mistaken index would take
firstN(lines, n) == SubSeq(lines, 1, n)

\* lines[-n:]
lastN(lines, n) == SubSeq(lines, Len(lines) - n + 1, Len(lines))

----------------------------------------------------------------------------
(* GitHubClient._extract_last_lines_before_completion *)

line_count == 20

\* the function with the line bound compared strictly: a text of exactly
\* line_count lines is rebuilt from its lines instead of returned as it is
extract_strict_bound(text) ==
    LET pos == search(text) IN
    IF pos # 0
    THEN LET content_before == strip(SubSeq(text, 1, pos - 1))
             lines == splitlines(content_before)
         IN  IF Len(lines) < line_count THEN content_before
             ELSE join(lastN(lines, line_count))
    ELSE LET lines == splitlines(text)
         IN  IF Len(lines) < line_count THEN text
             ELSE join(lastN(lines, line_count))

extract_last_lines_before_completion(text) ==
    LET pos == search(text) IN
    IF pos # 0
    THEN LET content_before == strip(SubSeq(text, 1, pos - 1))
             lines == splitlines(content_before)
         IN  IF Len(lines) <= line_count THEN content_before
             ELSE join(lastN(lines, line_count))
    ELSE LET lines == splitlines(text)
         IN  IF Len(lines) <= line_count THEN text
             ELSE join(lastN(lines, line_count))

----------------------------------------------------------------------------
(* The log texts the trim is applied to *)

Word(prefix, i) == prefix \o ToString(i)

\* n lines "l1" .. "ln", each ended by a line break; line `blank` (when in
\* 1..n) is empty and line `padded` ends with blanks
RECURSIVE BodyLines(_, _, _, _)
BodyLines(prefix, n, blank, padded) ==
    IF n = 0 THEN <<>>
    ELSE BodyLines(prefix, n - 1, blank, padded)
         \o (IF n = blank THEN <<>> ELSE <<Word(prefix, n)>>)
         \o (IF n = padded THEN <<" ">> ELSE <<>>)
         \o <<"\n">>

\* a job log: a body, then (markers > 0) the marker on a line of its own or
\* behind a timestamp, then (markers > 1) more lines and a second marker,
\* then a closing line
LogText(n, blank, padded, stamped, markers, mid, closing) ==
    BodyLines("l", n, blank, padded)
    \o (IF markers > 0
        THEN (IF stamped THEN <<"ts", " ">> ELSE <<>>) \o <<Marker, "\n">>
        ELSE <<>>)
    \o (IF markers > 1
        THEN BodyLines("m", mid, 0, 0)
             \o (IF stamped THEN <<"ts", " ">> ELSE <<>>) \o <<Marker, "\n">>
        ELSE <<>>)
    \o (IF closing THEN <<"end">> ELSE <<>>)

LogTexts ==
    { LogText(n, blank, padded, stamped, markers, mid, closing) :
        n \in 0..MaxLogLines,
        blank \in {0, 1, MaxLogLines - 1},
        padded \in {0, MaxLogLines - 1},
        stamped \in BOOLEAN,
        markers \in 0..2,
        mid \in {0, MaxMidLines},
        closing \in BOOLEAN }

----------------------------------------------------------------------------
(* The trim as a state machine: a text is given, the function is applied *)

TrimIdle == log_content = <<>> /\ last_lines = <<>> /\ trim_pc = "idle"

ClientIdle ==
    /\ platform = [idle |-> TRUE]
    /\ call = [fn |-> "none"]
    /\ ret = [pending |-> TRUE]
    /\ client_pc = "idle"

RetryIdle == attempts = <<>> /\ responses = <<>> /\ slept = <<>>

CheckIdle ==
    /\ code_checks = <<>>
    /\ check_idx = 0
    /\ total_checks = 0
    /\ total_matches = 0
    /\ checked = [check |-> 0, idle |-> TRUE]

ScanIdle ==
    /\ environ = {}
    /\ github_clients = {}
    /\ dry_run = FALSE
    /\ repos = <<>>
    /\ repo_idx = 0
    /\ pr_idx = 0
    /\ total_prs = 0
    /\ total_issues = 0
    /\ last = [pr |-> 0, idle |-> TRUE]
    /\ scan_pc = "idle"
    /\ CheckIdle

TrimInit ==
    /\ log_content \in LogTexts
    /\ last_lines = <<>>
    /\ trim_pc = "call"
    /\ ClientIdle
    /\ RetryIdle
    /\ ScanIdle

Extract ==
    /\ trim_pc = "call"
    /\ last_lines' = extract_last_lines_before_completion(log_content)
    /\ trim_pc' = "done"
    /\ UNCHANGED <<log_content, clientVars, retryVars, scanVars>>

TrimNext == Extract

SpecTrim == TrimInit /\ [][TrimNext]_vars

----------------------------------------------------------------------------
(* The platform and the outcome of a client method                         *)
(*                                                                         *)
(* A response is a record with a status: an HTTP status code, or 0 for a   *)
(* request that fails in transport (httpx.RequestError: a timeout, a       *)
(* refused connection).  json = FALSE is a body that response.json()       *)
(* cannot decode into the expected shape.                                  *)

RunIds == 1..MaxRunId

\* the check suite looked for, and another one
TargetSuite == "suite-1"
OtherSuite == "suite-2"
SuiteIds == {TargetSuite, OtherSuite}

WorkflowIds == {"workflow-1"}

\* a workflow run of a listing; id = 0 is an entry without an id
WorkflowRun(id, suite) == [id |-> id, check_suite_id |-> suite]

Req(endpoint, id) == [endpoint |-> endpoint, id |-> id]

Return(value, requests) == [exc |-> "", value |-> value, requests |-> requests]

Raise(exc, requests) == [exc |-> exc, value |-> <<>>, requests |-> requests]

\* response.raise_for_status() raises httpx.HTTPStatusError
IsErrorStatus(status) == status >= 400

\* the request raised httpx.RequestError or httpx.HTTPStatusError
RequestFailed(status) == status = 0 \/ IsErrorStatus(status)

----------------------------------------------------------------------------
(* GitHubClient._validate_workflow_runs *)

\* the validation keeping every run that answered at all, whatever the status
RECURSIVE validate_any_status(_, _)
validate_any_status(gh, workflow_runs) ==
    IF workflow_runs = <<>> THEN Return(<<>>, <<>>)
    ELSE LET run == Head(workflow_runs)
             rest == validate_any_status(gh, Tail(workflow_runs))
         IN  IF run.id = 0 THEN rest
             ELSE Return((IF gh.run_status[run.id] # 0 THEN <<run>> ELSE <<>>)
                            \o rest.value,
                         <<Req("run", run.id)>> \o rest.requests)

RECURSIVE validate_workflow_runs(_, _)
validate_workflow_runs(gh, workflow_runs) ==
    IF workflow_runs = <<>> THEN Return(<<>>, <<>>)
    ELSE LET run == Head(workflow_runs)
             rest == validate_workflow_runs(gh, Tail(workflow_runs))
         IN  IF run.id = 0 THEN rest
             ELSE Return((IF gh.run_status[run.id] = 200 THEN <<run>> ELSE <<>>)
                            \o rest.value,
                         <<Req("run", run.id)>> \o rest.requests)

----------------------------------------------------------------------------
(* GitHubClient._get_recent_workflow_runs_by_workflow_id *)

\* the runs of the workflow as listed, none of them asked for
workflow_runs_unvalidated(gh, workflow_id) ==
    LET resp == gh.workflow_runs[workflow_id]
        sent == <<Req("workflow_runs", workflow_id)>>
    IN  IF RequestFailed(resp.status) THEN Return(<<>>, sent)
        ELSE IF ~resp.json THEN Raise("ValueError", sent)
        ELSE Return(resp.runs, sent)

get_recent_workflow_runs_by_workflow_id(gh, workflow_id) ==
    LET resp == gh.workflow_runs[workflow_id]
        sent == <<Req("workflow_runs", workflow_id)>>
    IN  IF RequestFailed(resp.status) THEN Return(<<>>, sent)
        ELSE IF ~resp.json THEN Raise("ValueError", sent)
        ELSE IF resp.runs # <<>>
             THEN LET valid == validate_workflow_runs(gh, resp.runs)
                  IN  Return(valid.value, sent \o valid.requests)
             ELSE Return(<<>>, sent)

----------------------------------------------------------------------------
(* GitHubClient.get_workflow_runs_by_check_suite *)

HasId(run) == run.id # 0

\* no fallback: nothing is returned when no exact match validated
no_recent_runs_fallback(gh, recent_runs) == Return(<<>>, <<>>)

\* the recent runs as a fallback
recent_runs_fallback(gh, recent_runs) == validate_workflow_runs(gh, recent_runs)

\* second approach: the recent workflow runs of the repository
runs_among_recent(gh, check_suite_id, sent) ==
    LET resp == gh.recent
        sent2 == sent \o <<Req("recent_runs", 0)>>
    IN  IF RequestFailed(resp.status) THEN Return(<<>>, sent2)
        ELSE IF ~resp.json THEN Raise("ValueError", sent2)
        ELSE LET recent_runs == SelectSeq(resp.runs, HasId)
                 matching_runs ==
                     SelectSeq(recent_runs,
                               LAMBDA run : run.check_suite_id = check_suite_id)
                 valid_matching ==
                     IF matching_runs # <<>>
                     THEN validate_workflow_runs(gh, matching_runs)
                     ELSE Return(<<>>, <<>>)
             IN  IF valid_matching.value # <<>>
                 THEN Return(valid_matching.value, sent2 \o valid_matching.requests)
                 ELSE LET valid_runs == recent_runs_fallback(gh, recent_runs)
                      IN  Return(valid_runs.value,
                                 sent2 \o valid_matching.requests \o valid_runs.requests)

\* the recent runs of the repository asked for whenever the workflow
\* reference gave no run
workflow_runs_or_recent(gh, check_suite_id) ==
    LET resp == gh.check_suite[check_suite_id]
        sent == <<Req("check_suite", check_suite_id)>>
    IN  IF RequestFailed(resp.status) THEN runs_among_recent(gh, check_suite_id, sent)
        ELSE IF ~resp.json THEN Raise("ValueError", sent)
        ELSE IF resp.workflow # "none"
             THEN LET found == get_recent_workflow_runs_by_workflow_id(gh, resp.workflow)
                  IN  IF found.exc = "" /\ found.value = <<>>
                      THEN runs_among_recent(gh, check_suite_id, sent \o found.requests)
                      ELSE [found EXCEPT !.requests = sent \o @]
             ELSE runs_among_recent(gh, check_suite_id, sent)

get_workflow_runs_by_check_suite(gh, check_suite_id) ==
    LET resp == gh.check_suite[check_suite_id]
        sent == <<Req("check_suite", check_suite_id)>>
    IN  IF RequestFailed(resp.status) THEN runs_among_recent(gh, check_suite_id, sent)
        ELSE IF ~resp.json THEN Raise("ValueError", sent)
        ELSE IF resp.workflow # "none"
             THEN LET found == get_recent_workflow_runs_by_workflow_id(gh, resp.workflow)
                  IN  [found EXCEPT !.requests = sent \o @]
             ELSE runs_among_recent(gh, check_suite_id, sent)

----------------------------------------------------------------------------
(* GitHubClient.get_workflow_logs *)

\* what a download yields: nothing, an empty body, bytes that are no
\* archive, or an archive of files
NoArchive == [kind |-> "none", files |-> <<>>]
EmptyBody == [kind |-> "empty", files |-> <<>>]
BadArchive == [kind |-> "bad", files |-> <<>>]
Archive(files) == [kind |-> "zip", files |-> files]

ArchiveFile(stem, ext, content) == [stem |-> stem, ext |-> ext, content |-> content]

\* the location header followed whatever the status of the logs endpoint
get_workflow_logs_any_status(gh, run_id) ==
    LET run_status == gh.run_status[run_id]
        logs == gh.logs[run_id]
        sent2 == <<Req("run", run_id), Req("run_logs", run_id)>>
        sent3 == sent2 \o <<Req("download", run_id)>>
    IN  IF RequestFailed(run_status) THEN Return(NoArchive, <<Req("run", run_id)>>)
        ELSE IF logs.status \in {0, 404} \/ ~logs.location THEN Return(NoArchive, sent2)
        ELSE IF RequestFailed(logs.download) THEN Return(NoArchive, sent3)
        ELSE Return(logs.archive, sent3)

get_workflow_logs(gh, run_id) ==
    LET run_status == gh.run_status[run_id]
        logs == gh.logs[run_id]
        sent1 == <<Req("run", run_id)>>
        sent2 == sent1 \o <<Req("run_logs", run_id)>>
        sent3 == sent2 \o <<Req("download", run_id)>>
    IN  IF run_status = 0 THEN Return(NoArchive, sent1)
        ELSE IF run_status = 404 THEN Return(NoArchive, sent1)
        ELSE IF IsErrorStatus(run_status) THEN Return(NoArchive, sent1)
        ELSE IF logs.status = 0 THEN Return(NoArchive, sent2)
        ELSE IF logs.status = 404 THEN Return(NoArchive, sent2)
        ELSE IF logs.status = 302
             THEN IF logs.location
                  THEN IF RequestFailed(logs.download) THEN Return(NoArchive, sent3)
                       ELSE Return(logs.archive, sent3)
                  ELSE Return(NoArchive, sent2)
             ELSE Return(NoArchive, sent2)

----------------------------------------------------------------------------
(* GitHubClient.get_pr_check_runs *)

\* models.CheckRun
CheckRunConclusions == {"success", "failure", "cancelled", "timed_out", "action_required"}

NoOutput == [set |-> FALSE, text |-> <<>>]

CheckRun(name, status, conclusion, output) ==
    [name |-> name, status |-> status, conclusion |-> conclusion, output |-> output]

\* CheckRun.get_output_text: <<>> stands for None
get_output_text(check_run) ==
    IF check_run.output.set /\ check_run.output.text # <<>>
    THEN check_run.output.text ELSE <<>>

\* the conclusions for which logs are looked for
enriched_conclusions == {"failure", "timed_out"}

Banner(job_name) == "=== JOB: " \o job_name \o " ==="

\* the section holding the trimmed text whatever it is
job_section_trimmed(file) ==
    <<Banner(file.stem), "\n">>
    \o extract_last_lines_before_completion(file.content)
    \o <<"\n">>

\* the section of one log file of the archive
job_section(file) ==
    LET trimmed == extract_last_lines_before_completion(file.content)
    IN  <<Banner(file.stem), "\n">>
        \o (IF trimmed # <<>> THEN trimmed ELSE file.content)
        \o <<"\n">>

RECURSIVE job_sections(_)
job_sections(files) ==
    IF files = <<>> THEN <<>>
    ELSE <<job_section(Head(files))>> \o job_sections(Tail(files))

IsLogFile(file) == file.ext = ".txt"

\* the log enrichment of one check run (lines 433-467): the check run as it
\* is afterwards, whether logs were attached, and the requests sent
Enriched(check_run, found, requests) ==
    [exc |-> "", check_run |-> check_run, found |-> found, requests |-> requests]

EnrichRaised(exc, requests) ==
    [exc |-> exc, check_run |-> <<>>, found |-> FALSE, requests |-> requests]

attach_logs(check_run, archive, requests) ==
    IF archive.kind \in {"none", "empty"} THEN Enriched(check_run, FALSE, requests)
    ELSE IF archive.kind = "bad" THEN EnrichRaised("BadZipFile", requests)
    ELSE LET log_files == SelectSeq(archive.files, IsLogFile)
         IN  IF log_files = <<>> THEN Enriched(check_run, FALSE, requests)
             ELSE Enriched([check_run EXCEPT !.output =
                                [set |-> TRUE, text |-> join(job_sections(log_files))]],
                           TRUE, requests)

enrich(gh, run, check_run) ==
    IF run.check_suite = "none" THEN Enriched(check_run, FALSE, <<>>)
    ELSE LET workflow_runs == get_workflow_runs_by_check_suite(gh, run.check_suite)
         IN  IF workflow_runs.exc # "" THEN EnrichRaised(workflow_runs.exc, workflow_runs.requests)
             ELSE IF workflow_runs.value = <<>>
                  THEN Enriched(check_run, FALSE, workflow_runs.requests)
                  ELSE LET logs_content == get_workflow_logs(gh, workflow_runs.value[1].id)
                       IN  attach_logs(check_run, logs_content.value,
                                       workflow_runs.requests \o logs_content.requests)

\* the decoding of one run of the response (lines 419-428)
decode_output(run) ==
    IF run.output = "absent" THEN NoOutput
    ELSE [set |-> TRUE, text |-> IF run.output = "text" THEN <<"api-output">> ELSE <<>>]

\* a null conclusion taken for a failure
decode_null_as_failure(run) ==
    IF run.conclusion = "None" THEN "failure" ELSE run.conclusion

decode_conclusion(run) ==
    IF run.conclusion = "None" THEN "action_required" ELSE run.conclusion

\* the loop over the runs of the response (lines 417-468)
RECURSIVE check_runs_loop(_, _, _, _, _)
check_runs_loop(gh, data, runs, found_logs_for_failed_check, requests) ==
    IF data = <<>> THEN Return(runs, requests)
    ELSE LET run == Head(data)
             conclusion == decode_conclusion(run)
         IN  IF conclusion \notin CheckRunConclusions
             THEN Raise("ValidationError", requests)
             ELSE LET check_run == CheckRun(run.name, run.status, conclusion,
                                            decode_output(run))
                  IN  IF conclusion \in enriched_conclusions
                         /\ ~found_logs_for_failed_check
                      THEN LET e == enrich(gh, run, check_run)
                           IN  IF e.exc # "" THEN Raise(e.exc, requests \o e.requests)
                               ELSE check_runs_loop(gh, Tail(data),
                                                    Append(runs, e.check_run), e.found,
                                                    requests \o e.requests)
                      ELSE check_runs_loop(gh, Tail(data), Append(runs, check_run),
                                           found_logs_for_failed_check, requests)

\* what the method returns, the exception it logged, and the requests it sent
Returned(value, logged, requests) ==
    [exc |-> "", value |-> value, logged |-> logged, requests |-> requests]

\* the check runs asked for whatever the pull request resource answered
check_runs_without_head(gh, pr_number) ==
    LET sent2 == <<Req("pull", pr_number), Req("check_runs", pr_number)>>
    IN  IF RequestFailed(gh.check_runs.status) \/ ~gh.check_runs.json
        THEN Returned(<<>>, "Exception", sent2)
        ELSE LET out == check_runs_loop(gh, gh.check_runs.runs, <<>>, FALSE, sent2)
             IN  IF out.exc # "" THEN Returned(<<>>, out.exc, out.requests)
                 ELSE Returned(out.value, "", out.requests)

get_pr_check_runs(gh, pr_number) ==
    LET sent1 == <<Req("pull", pr_number)>>
        sent2 == sent1 \o <<Req("check_runs", pr_number)>>
    IN  IF gh.pull.status = 0 THEN Returned(<<>>, "TimeoutException", sent1)
        ELSE IF IsErrorStatus(gh.pull.status) THEN Returned(<<>>, "HTTPStatusError", sent1)
        ELSE IF ~gh.pull.json THEN Returned(<<>>, "KeyError", sent1)
        ELSE IF gh.check_runs.status = 0 THEN Returned(<<>>, "TimeoutException", sent2)
        ELSE IF IsErrorStatus(gh.check_runs.status)
             THEN Returned(<<>>, "HTTPStatusError", sent2)
        ELSE IF ~gh.check_runs.json THEN Returned(<<>>, "ValueError", sent2)
        ELSE LET out == check_runs_loop(gh, gh.check_runs.runs, <<>>, FALSE, sent2)
             IN  IF out.exc # "" THEN Returned(<<>>, out.exc, out.requests)
                 ELSE Returned(out.value, "", out.requests)

----------------------------------------------------------------------------
(* The platforms the correlator is run against *)

RECURSIVE SeqsUpTo(_, _)
SeqsUpTo(S, n) ==
    IF n = 0 THEN {<<>>}
    ELSE LET shorter == SeqsUpTo(S, n - 1)
         IN  shorter \cup { Append(q, x) : q \in {t \in shorter : Len(t) = n - 1}, x \in S }

RunStatuses == {0, 200, 404}

ListedRuns == { WorkflowRun(id, suite) : id \in 0..MaxRunId, suite \in SuiteIds }

\* what the check-suite resource answers: a failure, an undecodable body, a
\* suite without a workflow reference, or one with it
CheckSuiteResponses ==
    { [status |-> st, json |-> TRUE, workflow |-> "none"] : st \in {0, 200, 404} }
    \cup { [status |-> 200, json |-> FALSE, workflow |-> "none"],
           [status |-> 200, json |-> TRUE, workflow |-> "workflow-1"] }

ListingResponses(runLists) ==
    { [status |-> st, json |-> TRUE, runs |-> <<>>] : st \in {0, 500} }
    \cup { [status |-> 200, json |-> FALSE, runs |-> <<>>] }
    \cup { [status |-> 200, json |-> TRUE, runs |-> runs] : runs \in runLists }

NoListing == [status |-> 404, json |-> TRUE, runs |-> <<>>]

\* what the logs endpoint of a run answers, the download of the redirect
\* location and the bytes downloaded
LogsResponse(status, location, download, archive) ==
    [status |-> status, location |-> location, download |-> download,
     archive |-> archive]

LogsNotFound == LogsResponse(404, FALSE, 0, NoArchive)

NoLogs == [r \in RunIds |-> LogsNotFound]

\* the platform of a correlator call; the other endpoints are not asked
Platform(suite, workflow_runs, recent, run_status, logs) ==
    [pull |-> [status |-> 200, json |-> TRUE],
     check_runs |-> [status |-> 200, json |-> TRUE, runs |-> <<>>],
     check_suite |-> [s \in SuiteIds |-> suite],
     workflow_runs |-> [w \in WorkflowIds |-> workflow_runs],
     recent |-> recent,
     run_status |-> run_status,
     logs |-> logs]

----------------------------------------------------------------------------
(* _validate_workflow_runs and get_workflow_runs_by_check_suite as calls *)

ValidateInit ==
    /\ TrimIdle
    /\ RetryIdle
    /\ ScanIdle
    /\ \E run_status \in [RunIds -> RunStatuses \cup {500}] :
           platform = Platform([status |-> 404, json |-> TRUE, workflow |-> "none"],
                               NoListing, NoListing, run_status, NoLogs)
    /\ \E runs \in SeqsUpTo(ListedRuns, MaxCandidates) :
           call = [fn |-> "_validate_workflow_runs", workflow_runs |-> runs]
    /\ ret = [pending |-> TRUE]
    /\ client_pc = "call"

Validate ==
    /\ client_pc = "call"
    /\ call.fn = "_validate_workflow_runs"
    /\ ret' = validate_workflow_runs(platform, call.workflow_runs)
    /\ client_pc' = "done"
    /\ UNCHANGED <<platform, call, trimVars, retryVars, scanVars>>

ValidateNext == Validate

SpecValidate == ValidateInit /\ [][ValidateNext]_vars

CorrelatorInit ==
    /\ TrimIdle
    /\ RetryIdle
    /\ ScanIdle
    /\ \E suite \in CheckSuiteResponses,
          recent \in ListingResponses(SeqsUpTo(ListedRuns, MaxRecent)),
          run_status \in [RunIds -> RunStatuses] :
         \E workflow_runs \in
              (IF suite.workflow = "none" THEN {NoListing}
               ELSE ListingResponses({<<>>, recent.runs,
                                      <<WorkflowRun(1, TargetSuite)>>})) :
           platform = Platform(suite, workflow_runs, recent, run_status, NoLogs)
    /\ call = [fn |-> "get_workflow_runs_by_check_suite", check_suite_id |-> TargetSuite]
    /\ ret = [pending |-> TRUE]
    /\ client_pc = "call"

Correlate ==
    /\ client_pc = "call"
    /\ call.fn = "get_workflow_runs_by_check_suite"
    /\ ret' = get_workflow_runs_by_check_suite(platform, call.check_suite_id)
    /\ client_pc' = "done"
    /\ UNCHANGED <<platform, call, trimVars, retryVars, scanVars>>

CorrelatorNext == Correlate

SpecCorrelator == CorrelatorInit /\ [][CorrelatorNext]_vars

----------------------------------------------------------------------------
(* The platforms get_pr_check_runs is run against *)

\* a job log of three lines, the marker behind a timestamp, and a closing line
ShortLog == LogText(3, 0, 0, TRUE, 1, 0, TRUE)

\* a job log that starts with the marker
MarkerFirstLog == LogText(0, 0, 0, FALSE, 1, 0, TRUE)

GoodArchive ==
    Archive(<<ArchiveFile("metadata", ".json", <<"{}">>),
              ArchiveFile("build", ".txt", ShortLog)>>)

\* how the log acquisition of a check suite ends
LogScenarios ==
    {"logs", "marker_first", "correlator_raises", "run_gone", "logs_not_found",
     "no_location", "download_fails", "empty_body", "bad_archive", "no_log_files"}

ScenarioLogs(scenario) ==
    CASE scenario = "logs_not_found" -> LogsNotFound
      [] scenario = "no_location" -> LogsResponse(302, FALSE, 0, NoArchive)
      [] scenario = "download_fails" -> LogsResponse(302, TRUE, 500, NoArchive)
      [] scenario = "empty_body" -> LogsResponse(302, TRUE, 200, EmptyBody)
      [] scenario = "bad_archive" -> LogsResponse(302, TRUE, 200, BadArchive)
      [] scenario = "no_log_files" ->
            LogsResponse(302, TRUE, 200,
                         Archive(<<ArchiveFile("metadata", ".json", <<"{}">>)>>))
      [] scenario = "marker_first" ->
            LogsResponse(302, TRUE, 200,
                         Archive(<<ArchiveFile("lint", ".txt", MarkerFirstLog),
                                   ArchiveFile("build", ".txt", ShortLog)>>))
      [] OTHER -> LogsResponse(302, TRUE, 200, GoodArchive)

\* workflow run 1 belongs to the target suite and run 2 to the other suite;
\* scenario1 and scenario2 say how the log acquisition of each suite ends
RunOfSuite(suite) == IF suite = TargetSuite THEN 1 ELSE 2

ScenarioOfRun(r, scenario1, scenario2) ==
    IF r = 1 THEN scenario1 ELSE IF r = 2 THEN scenario2 ELSE "logs_not_found"

RepoPlatform(pull, check_runs, scenario1, scenario2) ==
    [pull |-> pull,
     check_runs |-> check_runs,
     check_suite |->
        [s \in SuiteIds |->
            [status |-> 200,
             json |-> ScenarioOfRun(RunOfSuite(s), scenario1, scenario2)
                        # "correlator_raises",
             workflow |-> "none"]],
     workflow_runs |-> [w \in WorkflowIds |-> NoListing],
     recent |-> [status |-> 200, json |-> TRUE,
                 runs |-> <<WorkflowRun(1, TargetSuite), WorkflowRun(2, OtherSuite)>>],
     run_status |->
        [r \in RunIds |->
            IF ScenarioOfRun(r, scenario1, scenario2) = "run_gone" THEN 404 ELSE 200],
     logs |-> [r \in RunIds |-> ScenarioLogs(ScenarioOfRun(r, scenario1, scenario2))]]

\* a check run of the platform's response
RawRun(conclusion, check_suite, output) ==
    [name |-> "check", status |-> "completed", conclusion |-> conclusion,
     check_suite |-> check_suite, output |-> output]

RawConclusions == {"success", "failure", "cancelled", "timed_out", "None", "neutral"}

RawRuns ==
    { RawRun(c, s, "null") : c \in RawConclusions, s \in SuiteIds }
    \cup { RawRun("failure", TargetSuite, "text"), RawRun("failure", "none", "absent"),
           RawRun("success", "none", "text") }

\* the runs named by their place in the response
Named(runs) == [i \in 1..Len(runs) |-> [runs[i] EXCEPT !.name = "check-" \o ToString(i)]]

OkResponse == [status |-> 200, json |-> TRUE]

FailedResponses ==
    { [status |-> 0, json |-> TRUE], [status |-> 404, json |-> TRUE],
      [status |-> 500, json |-> TRUE], [status |-> 200, json |-> FALSE] }

CheckRunsResponse(resp, runs) ==
    [status |-> resp.status, json |-> resp.json, runs |-> Named(runs)]

SampleRuns == <<RawRun("failure", TargetSuite, "null"), RawRun("success", "none", "null")>>

CheckRunsInit ==
    /\ TrimIdle
    /\ RetryIdle
    /\ ScanIdle
    /\ \/ \E runs \in SeqsUpTo(RawRuns, MaxRuns),
             scenario1 \in LogScenarios :
            platform = RepoPlatform(OkResponse, CheckRunsResponse(OkResponse, runs),
                                    scenario1, "logs")
       \/ \E pull \in FailedResponses :
            platform = RepoPlatform(pull, CheckRunsResponse(OkResponse, SampleRuns),
                                    "logs", "logs")
       \/ \E resp \in FailedResponses :
            platform = RepoPlatform(OkResponse, CheckRunsResponse(resp, SampleRuns),
                                    "logs", "logs")
    /\ call = [fn |-> "get_pr_check_runs", pr_number |-> 42]
    /\ ret = [pending |-> TRUE]
    /\ client_pc = "call"

GetPrCheckRuns ==
    /\ client_pc = "call"
    /\ call.fn = "get_pr_check_runs"
    /\ ret' = get_pr_check_runs(platform, call.pr_number)
    /\ client_pc' = "done"
    /\ UNCHANGED <<platform, call, trimVars, retryVars, scanVars>>

CheckRunsNext == GetPrCheckRuns

SpecCheckRuns == CheckRunsInit /\ [][CheckRunsNext]_vars

----------------------------------------------------------------------------
(* get_workflow_logs as a call *)

LogsInit ==
    /\ TrimIdle
    /\ RetryIdle
    /\ ScanIdle
    /\ \E run_status \in {0, 200, 404, 500},
          status \in {0, 200, 302, 404, 500},
          location \in BOOLEAN,
          download \in {0, 200, 404, 500},
          archive \in {EmptyBody, BadArchive, GoodArchive} :
         platform = Platform([status |-> 404, json |-> TRUE, workflow |-> "none"],
                             NoListing, NoListing,
                             [r \in RunIds |-> run_status],
                             [r \in RunIds |->
                                 LogsResponse(status, location, download, archive)])
    /\ \E run_id \in RunIds : call = [fn |-> "get_workflow_logs", run_id |-> run_id]
    /\ ret = [pending |-> TRUE]
    /\ client_pc = "call"

GetWorkflowLogs ==
    /\ client_pc = "call"
    /\ call.fn = "get_workflow_logs"
    /\ ret' = get_workflow_logs(platform, call.run_id)
    /\ client_pc' = "done"
    /\ UNCHANGED <<platform, call, trimVars, retryVars, scanVars>>

LogsNext == GetWorkflowLogs

SpecLogs == LogsInit /\ [][LogsNext]_vars

----------------------------------------------------------------------------
(* GitHubClient.search_code_in_repo and the retry it is decorated with     *)
(*                                                                         *)
(* An exception is a record with its class and, for an                     *)
(* httpx.HTTPStatusError, the status code of its response.                 *)

Outcome(exc, status, value, requests) ==
    [exc |-> exc, status |-> status, value |-> value, requests |-> requests]

\* a predicate retrying on every HTTP error status
should_retry_any_http_error(exception) == exception.exc = "HTTPStatusError"

\* a predicate retrying on every exception
should_retry_always(exception) == TRUE

should_retry_github_search(exception) ==
    IF exception.exc = "HTTPStatusError" THEN exception.status = 403 ELSE FALSE

\* get_file_content: the file, None, or the exception it lets out
get_file_content(file) ==
    IF file.status = 0 THEN [exc |-> "TimeoutException", status |-> 0, content |-> "None"]
    ELSE IF file.status = 404 THEN [exc |-> "", status |-> 0, content |-> "None"]
    ELSE IF IsErrorStatus(file.status)
         THEN [exc |-> "HTTPStatusError", status |-> file.status, content |-> "None"]
    ELSE IF file.type # "file" THEN [exc |-> "", status |-> 0, content |-> "None"]
    ELSE [exc |-> "", status |-> 0, content |-> file.content]

\* check_code_pattern(...).matched, on the content of a file
check_code_pattern(content) == content = "matching"

\* the loop over the items of the search response
RECURSIVE search_items(_, _, _, _)
search_items(items, i, results, requests) ==
    IF i > Len(items) THEN Outcome("", 0, results, requests)
    ELSE LET sent == Append(requests, Req("contents", i))
             file_content == get_file_content(items[i])
         IN  IF file_content.exc # ""
             THEN Outcome(file_content.exc, file_content.status, <<>>, sent)
             ELSE IF file_content.content = "None"
             THEN search_items(items, i + 1, results, sent)
             ELSE IF check_code_pattern(file_content.content)
             THEN search_items(items, i + 1, Append(results, items[i].path), sent)
             ELSE search_items(items, i + 1, results, sent)

\* the body without its handler for status 422
search_raising_422(response) ==
    LET sent == <<Req("search", 0)>>
    IN  IF response.status = 0 THEN Outcome("TimeoutException", 0, <<>>, sent)
        ELSE IF IsErrorStatus(response.status)
        THEN Outcome("HTTPStatusError", response.status, <<>>, sent)
        ELSE search_items(response.items, 1, <<>>, sent)

\* one run of the function's body: what it returns or raises
search_code_in_repo(response) ==
    LET sent == <<Req("search", 0)>>
        tried == IF response.status = 0 THEN Outcome("TimeoutException", 0, <<>>, sent)
                 ELSE IF IsErrorStatus(response.status)
                 THEN Outcome("HTTPStatusError", response.status, <<>>, sent)
                 ELSE search_items(response.items, 1, <<>>, sent)
    IN  IF tried.exc = "HTTPStatusError" /\ tried.status = 422
        THEN Outcome("", 0, <<>>, tried.requests)
        ELSE tried

stop_after_attempt == 3

wait_multiplier == 60

wait_min == 60

wait_max == 900

Max(a, b) == IF a >= b THEN a ELSE b

Min(a, b) == IF a <= b THEN a ELSE b

\* the same wait after every attempt
wait_fixed(attempt_number) == Max(0, wait_min)

\* tenacity's wait_exponential(multiplier, min, max) after the given attempt
wait_exponential(attempt_number) ==
    Max(Max(0, wait_min), Min(wait_multiplier * 2 ^ (attempt_number - 1), wait_max))

\* the answers of the platform to one attempt
FileAnswer(status, type, content) ==
    [status |-> status, type |-> type, content |-> content]

FileAnswers ==
    {FileAnswer(200, "file", "matching"), FileAnswer(200, "file", "other"),
     FileAnswer(200, "dir", "None")}
    \cup {FileAnswer(status, "none", "None") : status \in {0, 403, 404, 422, 500}}

Pathed(files) ==
    [i \in 1..Len(files) |->
        [path |-> "file-" \o ToString(i), status |-> files[i].status,
         type |-> files[i].type, content |-> files[i].content]]

SearchResponses ==
    {[status |-> 200, items |-> Pathed(files)] : files \in SeqsUpTo(FileAnswers, MaxItems)}
    \cup {[status |-> status, items |-> <<>>] : status \in {0, 403, 422, 500}}

SearchInit ==
    /\ TrimIdle
    /\ ScanIdle
    /\ platform = [idle |-> TRUE]
    /\ call = [fn |-> "search_code_in_repo"]
    /\ ret = [pending |-> TRUE]
    /\ client_pc = "call"
    /\ attempts = <<>>
    /\ responses = <<>>
    /\ slept = <<>>

\* an attempt that is repeated only when the search request itself failed
AttemptRetryingSearchOnly ==
    /\ client_pc = "call"
    /\ call.fn = "search_code_in_repo"
    /\ \E response \in SearchResponses :
         LET outcome == search_code_in_repo(response)
         IN  /\ attempts' = Append(attempts, outcome)
             /\ responses' = Append(responses, [status |-> response.status])
             /\ IF /\ outcome.exc # ""
                   /\ should_retry_github_search(outcome)
                   /\ Len(outcome.requests) = 1
                   /\ Len(attempts) + 1 < stop_after_attempt
                THEN client_pc' = "sleep" /\ UNCHANGED ret
                ELSE client_pc' = "done" /\ ret' = outcome
    /\ UNCHANGED <<platform, call, slept, trimVars, scanVars>>

\* one attempt, and tenacity's decision on its outcome
Attempt ==
    /\ client_pc = "call"
    /\ call.fn = "search_code_in_repo"
    /\ \E response \in SearchResponses :
         LET outcome == search_code_in_repo(response)
         IN  /\ attempts' = Append(attempts, outcome)
             /\ responses' = Append(responses, [status |-> response.status])
             /\ IF /\ outcome.exc # ""
                   /\ should_retry_github_search(outcome)
                   /\ Len(attempts) + 1 < stop_after_attempt
                THEN client_pc' = "sleep" /\ UNCHANGED ret
                ELSE client_pc' = "done" /\ ret' = outcome
    /\ UNCHANGED <<platform, call, slept, trimVars, scanVars>>

\* the wait before the next attempt
Sleep ==
    /\ client_pc = "sleep"
    /\ slept' = Append(slept, wait_exponential(Len(attempts)))
    /\ client_pc' = "call"
    /\ UNCHANGED <<platform, call, ret, attempts, responses, trimVars, scanVars>>

SearchNext == Attempt \/ Sleep

SpecSearch == SearchInit /\ [][SearchNext]_vars

----------------------------------------------------------------------------
(* GitHubClient._get_next_url_from_link_header                             *)
(*                                                                         *)
(* A Link header is a sequence of tokens: "<", ">", ";" and "," are the    *)
(* characters, " " is one blank, a relation such as rel="next" is one      *)
(* token and every other token is a piece of text without any of these.    *)

Quoted(rel) == "rel=\"" \o rel \o "\""

\* the relation the pattern ends with
NextRelation == Quoted("next")

IsBlank(token) == token = " "

\* the first index from i on whose token is ">", or 0
RECURSIVE closing_bracket(_, _)
closing_bracket(s, i) ==
    IF i > Len(s) THEN 0
    ELSE IF s[i] = ">" THEN i
    ELSE closing_bracket(s, i + 1)

\* \s*: the first index from i on whose token is not a blank
RECURSIVE skip_blanks(_, _)
skip_blanks(s, i) ==
    IF i <= Len(s) /\ IsBlank(s[i]) THEN skip_blanks(s, i + 1) ELSE i

\* the pattern <([^>]*)>;\s*rel="next" matched at index i: the index of
\* the ">" that ends group 1, or 0 when the pattern does not match there
match_ending_with(s, i, relations) ==
    IF s[i] # "<" THEN 0
    ELSE LET j == closing_bracket(s, i + 1)
         IN  IF j = 0 \/ j + 1 > Len(s) \/ s[j + 1] # ";" THEN 0
             ELSE LET k == skip_blanks(s, j + 2)
                  IN  IF k <= Len(s) /\ s[k] \in relations THEN j ELSE 0

NoUrl == [none |-> TRUE, url |-> <<>>]

\* next_pattern.search(link_header), then group(1) of the match
RECURSIVE pattern_search(_, _, _)
pattern_search(s, i, relations) ==
    IF i > Len(s) THEN NoUrl
    ELSE LET j == match_ending_with(s, i, relations)
         IN  IF j # 0 THEN [none |-> FALSE, url |-> SubSeq(s, i + 1, j - 1)]
             ELSE pattern_search(s, i + 1, relations)

\* the pattern with any relation in the place of rel="next"
next_url_of_any_relation(link_header) ==
    pattern_search(link_header, 1,
                   {Quoted("next"), Quoted("prev"), Quoted("first"), Quoted("last")})

\* the pattern with a group that takes every character: <(.*)>;\s*rel="next"
next_url_greedy(link_header) ==
    LET ends == { j \in 1..Len(link_header) :
                    /\ link_header[j] = ">"
                    /\ j + 1 <= Len(link_header)
                    /\ link_header[j + 1] = ";"
                    /\ LET k == skip_blanks(link_header, j + 2)
                       IN  k <= Len(link_header) /\ link_header[k] = NextRelation }
        starts == { i \in 1..Len(link_header) :
                      link_header[i] = "<" /\ \E j \in ends : i < j }
    IN  IF starts = {} THEN NoUrl
        ELSE LET i == CHOOSE i \in starts : \A p \in starts : i <= p
                 j == CHOOSE j \in ends : \A q \in ends : q <= j
             IN  [none |-> FALSE, url |-> SubSeq(link_header, i + 1, j - 1)]

\* lines 194-206: the URL of the next page, or None
get_next_url_from_link_header(link_header) ==
    IF link_header = <<>> THEN NoUrl
    ELSE pattern_search(link_header, 1, {NextRelation})

\* the address of page k of a listing
PageUrl(k) == <<"https://api.github.com/list", "?page=", ToString(k)>>

Blanks(n) == [i \in 1..n |-> " "]

\* one member of a Link header, written as its kind says
LinkText(link) ==
    CASE link.kind = "link" ->
           <<"<">> \o link.url \o <<">", ";">> \o Blanks(link.blanks) \o <<link.rel>>
      [] link.kind = "unclosed" ->
           <<"<">> \o link.url \o <<";">> \o Blanks(link.blanks) \o <<link.rel>>
      [] link.kind = "unopened" ->
           link.url \o <<">", ";">> \o Blanks(link.blanks) \o <<link.rel>>
      [] link.kind = "no-semicolon" ->
           <<"<">> \o link.url \o <<">">> \o Blanks(link.blanks) \o <<link.rel>>
      [] link.kind = "blank-first" ->
           <<"<">> \o link.url \o <<">", " ", ";">> \o Blanks(link.blanks) \o <<link.rel>>
      [] link.kind = "parameter-first" ->
           <<"<">> \o link.url \o <<">", ";", " ", "type=\"json\"", ";">>
           \o Blanks(link.blanks) \o <<link.rel>>
      [] link.kind = "bare" -> <<link.rel>>

\* the header of the links, which ", " separates
RECURSIVE HeaderOf(_)
HeaderOf(links) ==
    IF links = <<>> THEN <<>>
    ELSE IF Len(links) = 1 THEN LinkText(links[1])
    ELSE LinkText(links[1]) \o <<",", " ">> \o HeaderOf(Tail(links))

Relations == {Quoted("next"), Quoted("prev"), Quoted("last"), "rel=next"}

MalformedKinds ==
    {"unclosed", "unopened", "no-semicolon", "blank-first", "parameter-first", "bare"}

HeaderLinks ==
    { [kind |-> "link", url |-> PageUrl(k), blanks |-> n, rel |-> rel] :
        k \in 1..2, n \in 0..2, rel \in Relations }
    \cup { [kind |-> kind, url |-> PageUrl(k), blanks |-> 1, rel |-> rel] :
             kind \in MalformedKinds, k \in 1..2, rel \in Relations }

LinkInit ==
    /\ TrimIdle
    /\ RetryIdle
    /\ ScanIdle
    /\ platform = [idle |-> TRUE]
    /\ \E links \in SeqsUpTo(HeaderLinks, MaxLinks) :
         call = [fn |-> "_get_next_url_from_link_header", links |-> links,
                 link_header |-> HeaderOf(links)]
    /\ ret = [pending |-> TRUE]
    /\ client_pc = "call"

GetNextUrl ==
    /\ client_pc = "call"
    /\ call.fn = "_get_next_url_from_link_header"
    /\ ret' = get_next_url_from_link_header(call.link_header)
    /\ client_pc' = "done"
    /\ UNCHANGED <<platform, call, trimVars, retryVars, scanVars>>

LinkNext == GetNextUrl

SpecLink == LinkInit /\ [][LinkNext]_vars

----------------------------------------------------------------------------
(* GitHubClient.find_existing_issues and GitHubClient.issue_exists_with_title *)
(*                                                                         *)
(* A title is the sequence of its words, which single blanks separate.  A  *)
(* page of the open-issues listing is a response with its entries and its  *)
(* Link header; the pages of a listing are kept under their page numbers.  *)

\* the page number a URL asks for, or 0 when it is not the URL of a page
PageOf(pages, url) ==
    IF \E k \in 1..Len(pages) : PageUrl(k) = url
    THEN CHOOSE k \in 1..Len(pages) : PageUrl(k) = url
    ELSE 0

NotFound == [status |-> 404, json |-> TRUE, items |-> <<>>, link |-> <<>>]

\* client.get(url): what the platform answers
get(pages, url) == IF PageOf(pages, url) = 0 THEN NotFound ELSE pages[PageOf(pages, url)]

\* a loop that reads the first page only
no_next_url(resp) == <<>>

\* the URL the loop goes on with: None and "" both end it
next_url(resp) == get_next_url_from_link_header(resp.link).url

\* the words "Dependabot" can end: the pattern is searched for, not matched
EndsInDependabot(word) == word \in {"Dependabot", "re:Dependabot"}

NumberWord(pr_number) == "#" \o ToString(pr_number)

\* m written in decimal is the start of n written in decimal
RECURSIVE IsDecimalPrefix(_, _)
IsDecimalPrefix(m, n) == n = m \/ (n >= 10 /\ IsDecimalPrefix(m, n \div 10))

\* the word is a number that starts with the digits of pr_number
StartsWithNumber(word, pr_number) ==
    \E n \in 0..999 : IsDecimalPrefix(pr_number, n) /\ word = NumberWord(n)

\* the pattern without its closing group ( | to ): the digits may go on
pr_pattern_open_ended(title, pr_number) ==
    \E k \in 1..Len(title) :
       /\ EndsInDependabot(title[k])
       /\ \/ k + 1 <= Len(title) /\ StartsWithNumber(title[k + 1], pr_number)
          \/ /\ k + 2 <= Len(title)
             /\ title[k + 1] = "PR"
             /\ StartsWithNumber(title[k + 2], pr_number)

\* pr_pattern.search(title) for Dependabot( PR)? #{pr_number}( | to ): the
\* number is followed by a blank, so by one more word
pr_pattern_search(title, pr_number) ==
    \E k \in 1..Len(title) :
       /\ EndsInDependabot(title[k])
       /\ \/ k + 2 <= Len(title) /\ title[k + 1] = NumberWord(pr_number)
          \/ /\ k + 3 <= Len(title)
             /\ title[k + 1] = "PR"
             /\ title[k + 2] = NumberWord(pr_number)

\* lines 501-505: the entries of a page whose title the pattern is found in
RECURSIVE matching_entries(_, _)
matching_entries(items, pr_number) ==
    IF items = <<>> THEN <<>>
    ELSE (IF pr_pattern_search(Head(items).title, pr_number)
          THEN <<Head(items)>> ELSE <<>>)
         \o matching_entries(Tail(items), pr_number)

\* the loop forgetting what it has found when a request fails
RECURSIVE find_existing_or_nothing(_, _, _, _, _)
find_existing_or_nothing(pages, url, pr_number, found, requests) ==
    IF url = <<>> THEN Return(found, requests)
    ELSE LET resp == get(pages, url)
             sent == Append(requests, Req("issues", PageOf(pages, url)))
         IN  IF RequestFailed(resp.status) \/ ~resp.json THEN Return(<<>>, sent)
             ELSE find_existing_or_nothing(pages, next_url(resp), pr_number,
                                           found \o matching_entries(resp.items, pr_number),
                                           sent)

\* the loop "while url", from the given URL on
RECURSIVE find_existing_from(_, _, _, _, _)
find_existing_from(pages, url, pr_number, found, requests) ==
    IF url = <<>> THEN Return(found, requests)
    ELSE LET resp == get(pages, url)
             sent == Append(requests, Req("issues", PageOf(pages, url)))
         IN  IF RequestFailed(resp.status) \/ ~resp.json THEN Return(found, sent)
             ELSE find_existing_from(pages, next_url(resp), pr_number,
                                     found \o matching_entries(resp.items, pr_number),
                                     sent)

find_existing_issues(pages, pr_number) ==
    find_existing_from(pages, PageUrl(1), pr_number, <<>>, <<>>)

\* a title that holds the target counts as the target
is_title_containing(item, title) ==
    \E k \in 0..(Len(item.title) - Len(title)) :
       SubSeq(item.title, k + 1, k + Len(title)) = title

\* lines 1004-1007: the entry is an issue with exactly this title
is_issue_titled(item, title) == ~item.pull_request /\ item.title = title

\* the lookup that reads every page before it answers, and answers False
\* when a request failed
RECURSIVE issue_exists_after_all_pages(_, _, _, _, _)
issue_exists_after_all_pages(pages, url, title, seen, requests) ==
    IF url = <<>> THEN Return(seen, requests)
    ELSE LET resp == get(pages, url)
             sent == Append(requests, Req("issues", PageOf(pages, url)))
         IN  IF RequestFailed(resp.status) \/ ~resp.json THEN Return(FALSE, sent)
             ELSE issue_exists_after_all_pages(
                      pages, next_url(resp), title,
                      seen \/ \E k \in 1..Len(resp.items) :
                                 is_issue_titled(resp.items[k], title),
                      sent)

issue_exists_reading_on(pages, url, title, requests) ==
    issue_exists_after_all_pages(pages, url, title, FALSE, requests)

RECURSIVE issue_exists_from(_, _, _, _)
issue_exists_from(pages, url, title, requests) ==
    IF url = <<>> THEN Return(FALSE, requests)
    ELSE LET resp == get(pages, url)
             sent == Append(requests, Req("issues", PageOf(pages, url)))
         IN  IF RequestFailed(resp.status) \/ ~resp.json THEN Return(FALSE, sent)
             ELSE IF \E k \in 1..Len(resp.items) : is_issue_titled(resp.items[k], title)
             THEN Return(TRUE, sent)
             ELSE issue_exists_from(pages, next_url(resp), title, sent)

issue_exists_with_title(pages, title) == issue_exists_from(pages, PageUrl(1), title, <<>>)

\* the titles of the listing: the two titles of an issue for pull request 5,
\* the title for pull request 51, and a title that ends with the number
IssueTitles ==
    { <<"Dependabot", "PR", "#5", "to", "upgrade", "pkg", "failed", "CI">>,
      <<"Dependabot", "#5", "to", "upgrade", "pkg", "failed", "CI">>,
      <<"Dependabot", "PR", "#51", "to", "upgrade", "pkg", "failed", "CI">>,
      <<"Dependabot", "PR", "#5">> }

Entries == { [title |-> title, pull_request |-> pr] : title \in IssueTitles, pr \in BOOLEAN }

Numbered(items) ==
    [i \in 1..Len(items) |->
        [number |-> i, title |-> items[i].title, pull_request |-> items[i].pull_request]]

\* the ways to cut the entries into n pages
RECURSIVE Chunks(_, _)
Chunks(items, n) ==
    IF n = 1 THEN {<<items>>}
    ELSE UNION { { <<SubSeq(items, 1, k)>> \o rest :
                     rest \in Chunks(SubSeq(items, k + 1, Len(items)), n - 1) } :
                 k \in 0..Len(items) }

PageLink(rel, k) == [kind |-> "link", url |-> PageUrl(k), blanks |-> 1, rel |-> Quoted(rel)]

\* the Link header of the page numbered k, as the platform writes it: the
\* pages of the listing are numbered 1, 1 + hop, ... up to the last
LinkOf(k, final, hop) ==
    HeaderOf((IF k > 1 THEN <<PageLink("prev", k - hop)>> ELSE <<>>)
             \o (IF k < final THEN <<PageLink("next", k + hop), PageLink("last", final)>>
                 ELSE <<>>)
             \o (IF k > 1 THEN <<PageLink("first", 1)>> ELSE <<>>))

\* the pages of a listing under their numbers; the failed one of them, if
\* any, is answered by the failure, and a number between two pages by 404
ListingPages(chunks, failed, failure, hop) ==
    LET final == 1 + (Len(chunks) - 1) * hop
    IN  [k \in 1..final |->
            IF (k - 1) % hop # 0 THEN NotFound
            ELSE LET i == 1 + (k - 1) \div hop
                 IN  IF i = failed
                     THEN [status |-> failure.status, json |-> failure.json,
                           items |-> <<>>, link |-> <<>>]
                     ELSE [status |-> 200, json |-> TRUE, items |-> chunks[i],
                           link |-> LinkOf(k, final, hop)]]

\* the distances between the numbers of two successive pages
Hops == {1, 2}

PageFailures ==
    { [status |-> 0, json |-> TRUE], [status |-> 500, json |-> TRUE],
      [status |-> 200, json |-> FALSE] }

IssueCalls ==
    { [fn |-> "find_existing_issues", pr_number |-> n, title |-> <<>>] : n \in {5, 51} }
    \cup { [fn |-> "issue_exists_with_title", pr_number |-> 0, title |-> title] :
             title \in { <<"Dependabot", "PR", "#5", "to", "upgrade", "pkg", "failed", "CI">>,
                         <<"Dependabot", "PR", "#5">> } }

IssuesInit ==
    /\ TrimIdle
    /\ RetryIdle
    /\ ScanIdle
    /\ \E items \in SeqsUpTo(Entries, MaxIssues), n \in 1..MaxPages :
         \E chunks \in Chunks(Numbered(items), n),
            failed \in 0..n, failure \in PageFailures, hop \in Hops :
           platform = [pages |-> ListingPages(chunks, failed, failure, hop)]
    /\ call \in IssueCalls
    /\ ret = [pending |-> TRUE]
    /\ client_pc = "call"

FindExistingIssues ==
    /\ client_pc = "call"
    /\ call.fn = "find_existing_issues"
    /\ ret' = find_existing_issues(platform.pages, call.pr_number)
    /\ client_pc' = "done"
    /\ UNCHANGED <<platform, call, trimVars, retryVars, scanVars>>

IssueExistsWithTitle ==
    /\ client_pc = "call"
    /\ call.fn = "issue_exists_with_title"
    /\ ret' = issue_exists_with_title(platform.pages, call.title)
    /\ client_pc' = "done"
    /\ UNCHANGED <<platform, call, trimVars, retryVars, scanVars>>

IssuesNext == FindExistingIssues \/ IssueExistsWithTitle

SpecIssues == IssuesInit /\ [][IssuesNext]_vars

----------------------------------------------------------------------------
(* GitHubClient.create_issue_graphql                                       *)

\* a response of the GraphQL endpoint
GraphqlAnswer(status, json, data) == [status |-> status, json |-> json, data |-> data]

\* get_repo_and_copilot_ids: the two ids, or the RuntimeError every failure
\* is turned into
get_repo_and_copilot_ids(gh) ==
    LET sent == <<Req("graphql_ids", 0)>>
    IN  IF RequestFailed(gh.ids.status) \/ ~gh.ids.json THEN Raise("RuntimeError", sent)
        ELSE IF gh.ids.data # "copilot" THEN Raise("RuntimeError", sent)
        ELSE Return(<<"repo-id", "copilot-id">>, sent)

\* the mutation sent once more after a failure
create_issue_twice(gh) ==
    LET ids == get_repo_and_copilot_ids(gh)
        sent == ids.requests \o <<Req("create_issue", 0)>>
    IN  IF ids.exc # "" THEN ids
        ELSE IF RequestFailed(gh.create.status) \/ ~gh.create.json
        THEN Raise("RuntimeError", sent \o <<Req("create_issue", 0)>>)
        ELSE IF gh.create.data # "issue" THEN Raise("RuntimeError", sent)
        ELSE Return(<<"issue">>, sent)

\* lines 114-162: the issue created, or the RuntimeError
create_issue_graphql(gh) ==
    LET ids == get_repo_and_copilot_ids(gh)
        sent == ids.requests \o <<Req("create_issue", 0)>>
    IN  IF ids.exc # "" THEN ids
        ELSE IF RequestFailed(gh.create.status) \/ ~gh.create.json
        THEN Raise("RuntimeError", sent)
        ELSE IF gh.create.data # "issue" THEN Raise("RuntimeError", sent)
        ELSE Return(<<"issue">>, sent)

\* what the endpoint answers to the query of the ids
IdsAnswers ==
    { GraphqlAnswer(status, TRUE, "none") : status \in {0, 401, 500} }
    \cup { GraphqlAnswer(200, FALSE, "none") }
    \cup { GraphqlAnswer(200, TRUE, data) :
             data \in {"no-repository", "no-copilot", "copilot-without-id", "copilot"} }

\* what the endpoint answers to the mutation
CreateAnswers ==
    { GraphqlAnswer(status, TRUE, "none") : status \in {0, 403, 500, 502} }
    \cup { GraphqlAnswer(200, FALSE, "none") }
    \cup { GraphqlAnswer(200, TRUE, data) : data \in {"errors", "no-issue", "issue"} }

CreateInit ==
    /\ TrimIdle
    /\ RetryIdle
    /\ ScanIdle
    /\ \E ids \in IdsAnswers, create \in CreateAnswers :
         platform = [ids |-> ids, create |-> create]
    /\ call = [fn |-> "create_issue_graphql"]
    /\ ret = [pending |-> TRUE]
    /\ client_pc = "call"

CreateIssueGraphql ==
    /\ client_pc = "call"
    /\ call.fn = "create_issue_graphql"
    /\ ret' = create_issue_graphql(platform)
    /\ client_pc' = "done"
    /\ UNCHANGED <<platform, call, trimVars, retryVars, scanVars>>

----------------------------------------------------------------------------
(* The calls that read metadata or create an issue, taken together *)

RequestsInit == CheckRunsInit \/ IssuesInit \/ CreateInit

RequestsNext ==
    \/ GetPrCheckRuns
    \/ FindExistingIssues
    \/ IssueExistsWithTitle
    \/ CreateIssueGraphql

SpecRequests == RequestsInit /\ [][RequestsNext]_vars

----------------------------------------------------------------------------
(* GitHubClient.list_dependabot_prs and GitHubClient.list_owned_repos      *)
(*                                                                         *)
(* A login is the sequence of its pieces; updated_at is "recent" or "old"  *)
(* with respect to the cut-off date, or "absent".                          *)

\* pr["user"]["login"].startswith("dependabot")
is_dependabot(login) == login # <<>> /\ login[1] = "dependabot"

\* lines 361-368: the pull requests of a page that dependabot opened
RECURSIVE dependabot_prs(_)
dependabot_prs(items) ==
    IF items = <<>> THEN <<>>
    ELSE (IF is_dependabot(Head(items).login)
          THEN <<[number |-> Head(items).number, author |-> Head(items).login,
                  title |-> Head(items).title]>>
          ELSE <<>>)
         \o dependabot_prs(Tail(items))

\* the loop "while url" of list_dependabot_prs
RECURSIVE list_prs_from(_, _, _, _)
list_prs_from(pages, url, prs, requests) ==
    IF url = <<>> THEN Return(prs, requests)
    ELSE LET resp == get(pages, url)
             sent == Append(requests, Req("pulls", PageOf(pages, url)))
         IN  IF RequestFailed(resp.status) \/ ~resp.json THEN Return(prs, sent)
             ELSE list_prs_from(pages, next_url(resp),
                                prs \o dependabot_prs(resp.items), sent)

list_dependabot_prs(pages) == list_prs_from(pages, PageUrl(1), <<>>, <<>>)

\* lines 308-314: the repository is older than the cut-off date
is_stale(org, repo) == org # "None" /\ repo.updated_at = "old"

\* lines 306-325: the loop over the repositories of a page
RECURSIVE page_repos(_, _, _)
page_repos(org, items, repos_so_far) ==
    IF items = <<>> THEN [repos |-> repos_so_far, stop_fetching |-> FALSE]
    ELSE IF is_stale(org, Head(items))
    THEN [repos |-> repos_so_far, stop_fetching |-> TRUE]
    ELSE page_repos(org, Tail(items),
                    IF Head(items).permitted
                    THEN Append(repos_so_far,
                                [name |-> Head(items).name,
                                 is_personal |-> (org = "None")])
                    ELSE repos_so_far)

\* the loop "while url" of list_owned_repos
RECURSIVE list_repos_from(_, _, _, _, _)
list_repos_from(pages, org, url, repos_so_far, requests) ==
    IF url = <<>> THEN Return(repos_so_far, requests)
    ELSE LET resp == get(pages, url)
             sent == Append(requests, Req("repos", PageOf(pages, url)))
         IN  IF RequestFailed(resp.status) \/ ~resp.json THEN Return(repos_so_far, sent)
             ELSE LET page == page_repos(org, resp.items, repos_so_far)
                  IN  IF page.stop_fetching THEN Return(page.repos, sent)
                      ELSE list_repos_from(pages, org, next_url(resp), page.repos, sent)

list_owned_repos(pages, org) == list_repos_from(pages, org, PageUrl(1), <<>>, <<>>)

\* the pull requests of the listing: one of dependabot, one of somebody else
PullEntries ==
    { [login |-> login, title |-> <<"Bump", "pkg", "from", "1", "to", "2">>] :
        login \in { <<"dependabot", "[bot]">>, <<"octocat">> } }

NumberedPulls(items) ==
    [i \in 1..Len(items) |->
        [number |-> i, login |-> items[i].login, title |-> items[i].title]]

RepoEntries ==
    { [updated_at |-> updated_at, permitted |-> permitted] :
        updated_at \in {"recent", "old", "absent"}, permitted \in BOOLEAN }

NamedRepos(items) ==
    [i \in 1..Len(items) |->
        [name |-> "repo-" \o ToString(i), updated_at |-> items[i].updated_at,
         permitted |-> items[i].permitted]]

Orgs == {"None", "org-a"}

\* a listing and the call that reads it
ListingCalls ==
    { [fn |-> "list_dependabot_prs", org |-> "None", items |-> NumberedPulls(items)] :
        items \in SeqsUpTo(PullEntries, MaxIssues) }
    \cup { [fn |-> "list_owned_repos", org |-> org, items |-> NamedRepos(items)] :
             org \in Orgs, items \in SeqsUpTo(RepoEntries, MaxIssues) }

ListingsInit ==
    \/ IssuesInit
    \/ /\ TrimIdle
       /\ RetryIdle
       /\ ScanIdle
       /\ \E listing \in ListingCalls, n \in 1..MaxPages :
            \E chunks \in Chunks(listing.items, n),
               failed \in 0..n, failure \in PageFailures, hop \in Hops :
              /\ platform = [pages |-> ListingPages(chunks, failed, failure, hop)]
              /\ call = [fn |-> listing.fn, org |-> listing.org]
       /\ ret = [pending |-> TRUE]
       /\ client_pc = "call"

ListDependabotPrs ==
    /\ client_pc = "call"
    /\ call.fn = "list_dependabot_prs"
    /\ ret' = list_dependabot_prs(platform.pages)
    /\ client_pc' = "done"
    /\ UNCHANGED <<platform, call, trimVars, retryVars, scanVars>>

ListOwnedRepos ==
    /\ client_pc = "call"
    /\ call.fn = "list_owned_repos"
    /\ ret' = list_owned_repos(platform.pages, call.org)
    /\ client_pc' = "done"
    /\ UNCHANGED <<platform, call, trimVars, retryVars, scanVars>>

ListingsNext ==
    \/ FindExistingIssues
    \/ IssueExistsWithTitle
    \/ ListDependabotPrs
    \/ ListOwnedRepos

SpecListings == ListingsInit /\ [][ListingsNext]_vars

----------------------------------------------------------------------------
(* RepoMaintainerAgent.process_all                                         *)
(*                                                                         *)
(* The loop is followed one iteration at a time.  What the collaborators   *)
(* of an iteration answer (the check runs of the pull request, the         *)
(* existing-issue lookup, the summarizer, the issue creation) is drawn     *)
(* when the iteration asks for it.                                         *)

\* the token variables: "unset" is a variable that is not in the environment
TokenKeys == {"GITHUB_TOKEN_PERSONAL", "GITHUB_TOKEN", "GITHUB_TOKEN_ORG_A"}

\* org.upper().replace("-", "_"), for the organization of the model
org_env_name(org) == IF org = "org-a" THEN "ORG_A" ELSE org

\* get_github_token_for_org: the token, or the ValueError

get_github_token_for_org(env, org) ==
    LET own == IF org = "None" THEN "GITHUB_TOKEN_PERSONAL"
               ELSE "GITHUB_TOKEN_" \o org_env_name(org)
        token_key == IF env[own] # "unset" THEN own ELSE "GITHUB_TOKEN"
    IN  IF env[token_key] = "unset" THEN [exc |-> "ValueError", token |-> ""]
        ELSE IF env[token_key] = "" THEN [exc |-> "ValueError", token |-> ""]
        ELSE [exc |-> "", token |-> env[token_key]]

\* get_github_client: the cache after the call, or the exception of GitHubClient(org)
get_github_client(clients, env, org) ==
    LET cache_key == IF org = "None" THEN "personal" ELSE org
    IN  IF cache_key \in clients THEN [exc |-> "", clients |-> clients]
        ELSE IF get_github_token_for_org(env, org).exc # ""
             THEN [exc |-> "ValueError", clients |-> clients]
             ELSE [exc |-> "", clients |-> clients \cup {cache_key}]

\* line 85
FailingConclusions == {"failure", "cancelled", "timed_out"}

\* every check run taken for a failing one
every_run(check_runs) == check_runs

failing_runs(check_runs) ==
    SelectSeq(check_runs, LAMBDA c : c.conclusion \in FailingConclusions)

\* the conclusions among the check runs of a pull request
conclusions_of(check_runs) == { check_runs[i].conclusion : i \in 1..Len(check_runs) }

\* the check runs that carry a text
HasText(check_run) == check_run.output.set /\ check_run.output.text # <<>>

\* what the check runs of a pull request were: their conclusions, and the
\* conclusions of those with a text
SeenOf(check_runs) ==
    [conclusions |-> conclusions_of(check_runs),
     with_text |-> conclusions_of(SelectSeq(check_runs, HasText))]

NothingSeen == [conclusions |-> {}, with_text |-> {}]

\* lines 113 and 124: the labels of the issue
issue_labels(has_logs) ==
    IF has_logs THEN <<"dependabot-agent", "analysis.type">>
    ELSE <<"dependabot-agent", "failed_ci">>

\* an output counts as logs even when its text is empty
has_output_among(failing) == \E i \in 1..Len(failing) : failing[i].output.set

\* line 91
has_logs_among(failing) == \E i \in 1..Len(failing) : get_output_text(failing[i]) # <<>>

\* a lookup whose result is never looked at
never_skip(existing) == FALSE

\* line 93: the pull request is left alone when the lookup found an issue
skip_existing(existing) == existing # <<>>

\* what one iteration of the inner loop did
Iteration(seen, repo, pr, failing, has_logs, existing, analyzed, title, created, exc) ==
    [conclusions |-> seen.conclusions, with_text |-> seen.with_text,
     labels |-> IF title = <<>> THEN <<>> ELSE issue_labels(has_logs),
     repo |-> repo, pr |-> pr, failing |-> failing, has_logs |-> has_logs,
     existing |-> existing, analyzed |-> analyzed, title |-> title,
     created |-> created, exc |-> exc]

\* the platforms of the pull requests of a scan
ScanBatches ==
    { <<>>,
      <<RawRun("success", "none", "null")>>,
      <<RawRun("failure", TargetSuite, "null")>>,
      <<RawRun("cancelled", TargetSuite, "null")>>,
      <<RawRun("failure", "none", "text")>>,
      <<RawRun("success", "none", "null"), RawRun("timed_out", TargetSuite, "null")>> }

ScanPlatforms ==
    { RepoPlatform(OkResponse, CheckRunsResponse(OkResponse, runs), "logs", "logs") :
        runs \in ScanBatches }
    \cup { RepoPlatform(OkResponse,
                        CheckRunsResponse(OkResponse,
                                          <<RawRun("failure", TargetSuite, "null")>>),
                        "logs_not_found", "logs"),
           RepoPlatform([status |-> 500, json |-> TRUE],
                        CheckRunsResponse(OkResponse, SampleRuns), "logs", "logs") }

ExistingIssues == { <<>>, <<[number |-> 7, title |-> "Dependabot PR failed CI"]>> }

Owners == {"personal", "org-a"}

Repo(owner, prs) == [owner |-> owner, is_personal |-> owner = "personal", prs |-> prs]

Environment(personal, generic, org_a) ==
    [k \in TokenKeys |->
        IF k = "GITHUB_TOKEN_PERSONAL" THEN personal
        ELSE IF k = "GITHUB_TOKEN" THEN generic ELSE org_a]

Environments ==
    { Environment("token", "unset", "unset"), Environment("unset", "token", "unset"),
      Environment("token", "unset", "token"), Environment("unset", "unset", "token"),
      Environment("token", "token", "") }

NoIteration == Iteration(NothingSeen, 0, 0, FALSE, FALSE, FALSE, FALSE, <<>>, "none", "")

ScanInit ==
    /\ TrimIdle
    /\ RetryIdle
    /\ platform = [idle |-> TRUE]
    /\ ret = [pending |-> TRUE]
    /\ client_pc = "idle"
    /\ environ \in Environments
    /\ github_clients = {}
    /\ dry_run \in BOOLEAN
    /\ \E org \in {"None", "org-a"} :
         /\ call = [fn |-> "process_all", org |-> org]
         /\ repos \in SeqsUpTo({ Repo(owner, prs) :
                                   owner \in (IF org = "None" THEN Owners ELSE {org}),
                                   prs \in 0..MaxPRs }, MaxRepos)
    /\ repo_idx = 0
    /\ pr_idx = 0
    /\ total_prs = 0
    /\ total_issues = 0
    /\ last = NoIteration
    /\ scan_pc = "start"
    /\ CheckIdle

\* lines 55-74: the client of the discovery, and the repositories to scan
Discover ==
    /\ scan_pc = "start"
    /\ LET got == get_github_client(github_clients, environ, call.org)
       IN  IF got.exc # ""
           THEN /\ scan_pc' = "raised"
                /\ ret' = Raise(got.exc, <<>>)
                /\ UNCHANGED <<github_clients, repo_idx>>
           ELSE /\ github_clients' = got.clients
                /\ repo_idx' = 1
                /\ scan_pc' = "repo"
                /\ UNCHANGED ret
    /\ UNCHANGED <<platform, call, client_pc, environ, dry_run, repos, pr_idx, total_prs,
                   total_issues, last, trimVars, retryVars, checkVars>>

\* lines 75-82: the client of the next repository and its pull requests
NextRepo ==
    /\ scan_pc = "repo"
    /\ repo_idx <= Len(repos)
    /\ LET repo == repos[repo_idx]
           repo_org == IF repo.is_personal THEN "None" ELSE repo.owner
           got == get_github_client(github_clients, environ, repo_org)
       IN  IF got.exc # ""
           THEN /\ scan_pc' = "raised"
                /\ ret' = Raise(got.exc, <<>>)
                /\ UNCHANGED <<github_clients, repo_idx, pr_idx>>
           ELSE /\ github_clients' = got.clients
                /\ UNCHANGED ret
                /\ IF repo.prs = 0
                   THEN repo_idx' = repo_idx + 1 /\ UNCHANGED <<scan_pc, pr_idx>>
                   ELSE scan_pc' = "pr" /\ pr_idx' = 1 /\ UNCHANGED repo_idx
    /\ UNCHANGED <<platform, call, client_pc, environ, dry_run, repos, total_prs,
                   total_issues, last, trimVars, retryVars, checkVars>>

\* the inner loop goes to its next pull request, or the outer loop to its next repository
Continue ==
    IF pr_idx < repos[repo_idx].prs
    THEN pr_idx' = pr_idx + 1 /\ UNCHANGED <<repo_idx, scan_pc>>
    ELSE pr_idx' = 0 /\ repo_idx' = repo_idx + 1 /\ scan_pc' = "repo"

\* the titles of the pull requests a repository lists, by their place
PullTitles ==
    << <<"Bump", "requests", "from", "2.25.1", "to", "2.26.0">>,
       <<"Update", "django", "requirement">>,
       <<"Bumps", "flask", "to", "3.0">>,
       <<"build:", "Bump", "numpy">> >>

\* the title of pull request pr of repository repo
pr_title(repo, pr) == PullTitles[1 + ((repo + pr) % Len(PullTitles))]

\* the package is never looked for: the whole title stands for it
whole_title(title) == title

\* lines 100-101: re.match(r"(?:Bump|Update) ([^ ]+)", pr_title), and
\* group(1) of the match or else the whole title
target_pkg(title) ==
    IF Len(title) >= 2 /\ title[1] \in {"Bump", "Update"} THEN <<title[2]>> ELSE title

\* lines 106 and 120: the title of the issue
issue_title(has_logs, number, target) ==
    (IF has_logs THEN <<"Dependabot", "PR">> ELSE <<"Dependabot">>)
    \o <<NumberWord(number), "to", "upgrade">> \o target \o <<"failed", "CI">>

\* the creation outside any try: its exception ends the scan
CreateIssueUncaught(seen, has_logs, existing) ==
    LET title == issue_title(has_logs, pr_idx, target_pkg(pr_title(repo_idx, pr_idx)))
    IN  IF dry_run
        THEN /\ last' = Iteration(seen, repo_idx, pr_idx, TRUE, has_logs,
                                  existing # <<>>, has_logs, title, "dry_run", "")
             /\ Continue
             /\ UNCHANGED <<total_issues, ret>>
        ELSE \E creation \in {"created", "failed"} :
               /\ last' = Iteration(seen, repo_idx, pr_idx, TRUE, has_logs,
                                    existing # <<>>, has_logs, title, creation, "")
               /\ IF creation = "created"
                  THEN /\ total_issues' = total_issues + 1
                       /\ Continue
                       /\ UNCHANGED ret
                  ELSE /\ scan_pc' = "raised"
                       /\ ret' = Raise("RuntimeError", <<>>)
                       /\ UNCHANGED <<repo_idx, pr_idx, total_issues>>

\* the creation whatever dry_run says
CreateIssueAlways(seen, has_logs, existing) ==
    LET title == issue_title(has_logs, pr_idx, target_pkg(pr_title(repo_idx, pr_idx)))
    IN  \E creation \in {"created", "failed"} :
          /\ last' = Iteration(seen, repo_idx, pr_idx, TRUE, has_logs,
                               existing # <<>>, has_logs, title, creation, "")
          /\ total_issues' = IF creation = "created" THEN total_issues + 1
                             ELSE total_issues
          /\ Continue
          /\ UNCHANGED ret

\* lines 128-144: the issue is created, unless the run is dry
CreateIssue(seen, has_logs, existing) ==
    LET title == issue_title(has_logs, pr_idx, target_pkg(pr_title(repo_idx, pr_idx)))
    IN  IF dry_run
        THEN /\ last' = Iteration(seen, repo_idx, pr_idx, TRUE, has_logs,
                                  existing # <<>>, has_logs, title, "dry_run", "")
             /\ Continue
             /\ UNCHANGED <<total_issues, ret>>
        ELSE \E creation \in {"created", "failed"} :
               /\ last' = Iteration(seen, repo_idx, pr_idx, TRUE, has_logs,
                                    existing # <<>>, has_logs, title, creation, "")
               /\ total_issues' = IF creation = "created" THEN total_issues + 1
                                  ELSE total_issues
               /\ Continue
               /\ UNCHANGED ret

\* lines 97-127: the summarizer is asked when there are logs, and the issue is built
BuildIssue(seen, has_logs, existing) ==
    \E analysis \in (IF has_logs THEN {"ok", "raises"} ELSE {"not_called"}) :
       IF analysis = "raises"
       THEN /\ last' = Iteration(seen, repo_idx, pr_idx, TRUE, has_logs,
                                 existing # <<>>, TRUE, <<>>, "none", "UnexpectedModelBehavior")
            /\ scan_pc' = "raised"
            /\ ret' = Raise("UnexpectedModelBehavior", <<>>)
            /\ UNCHANGED <<repo_idx, pr_idx, total_issues>>
       ELSE CreateIssue(seen, has_logs, existing)

\* lines 88-95: the pull request is counted and an existing issue is looked for
LookUpExisting(seen, has_logs) ==
    /\ total_prs' = total_prs + 1
    /\ \E existing \in ExistingIssues :
         IF skip_existing(existing)
         THEN /\ last' = Iteration(seen, repo_idx, pr_idx, TRUE, has_logs,
                                   TRUE, FALSE, <<>>, "none", "")
              /\ Continue
              /\ UNCHANGED <<total_issues, ret>>
         ELSE BuildIssue(seen, has_logs, existing)

\* lines 83-144: one pull request
ProcessPR ==
    /\ scan_pc = "pr"
    /\ \E check_runs \in { get_pr_check_runs(gh, pr_idx).value : gh \in ScanPlatforms } :
         LET failing == failing_runs(check_runs)
             seen == SeenOf(check_runs)
         IN  IF failing = <<>>
             THEN /\ last' = Iteration(seen, repo_idx, pr_idx, FALSE, FALSE,
                                       FALSE, FALSE, <<>>, "none", "")
                  /\ Continue
                  /\ UNCHANGED <<total_prs, total_issues, ret>>
             ELSE LookUpExisting(seen, has_logs_among(failing))
    /\ UNCHANGED <<platform, call, client_pc, environ, github_clients, dry_run, repos,
                   trimVars, retryVars, checkVars>>

\* line 145: the scan is complete
Finish ==
    /\ scan_pc = "repo"
    /\ repo_idx > Len(repos)
    /\ scan_pc' = "done"
    /\ ret' = Return(<<>>, <<>>)
    /\ UNCHANGED <<platform, call, client_pc, environ, github_clients, dry_run, repos,
                   repo_idx, pr_idx, total_prs, total_issues, last, trimVars, retryVars, checkVars>>

ScanNext == Discover \/ NextRepo \/ ProcessPR \/ Finish

SpecScan == ScanInit /\ [][ScanNext]_vars

----------------------------------------------------------------------------
(* check_code_patterns: the scan of the repositories for the configured    *)
(* code patterns.                                                          *)
(*                                                                         *)
(* The loops are followed one check at a time.  What the platform holds    *)
(* for a check (an open issue under the title of the check, files to look  *)
(* at, a match of the pattern) is drawn when the iteration starts.         *)

\* the methods class GitHubClient defines
ClientMethods ==
    { "get_repo_and_copilot_ids", "create_issue_graphql", "__init__",
      "_get_next_url_from_link_header", "list_repos_from_yaml",
      "get_authenticated_username", "get_repository_info", "list_owned_repos",
      "list_dependabot_prs", "get_pr_check_runs", "find_existing_issues",
      "create_issue", "assign_issue", "get_workflow_jobs", "get_job_logs",
      "get_workflow_run_logs", "get_workflow_logs",
      "get_workflow_runs_by_check_suite", "_get_recent_workflow_runs_by_workflow_id",
      "_validate_workflow_runs", "get_file_content", "get_directory_contents",
      "get_files_in_directory", "check_code_pattern", "issue_exists_with_title",
      "_extract_last_lines_before_completion", "search_code_in_repo" }

\* github.<name>(...): what the method answers, or the AttributeError of a
\* name the class does not define
call_client(name, answer) ==
    IF name \in ClientMethods THEN Return(answer, <<>>)
    ELSE Raise("AttributeError", <<>>)

\* a CodeCheckConfig: where it looks, and the title of the issue it files
CodeCheck(target, title) == [target |-> target, issue_title |-> title]

CodeChecks ==
    { CodeCheck("file_path", <<"Outdated", "workflow">>),
      CodeCheck("search_repo", <<"Outdated", "workflow", "file">>),
      CodeCheck("directory_path", <<"Outdated", "workflow">>) }

\* the configuration file: absent, not loadable, or a list of checks
Config(exists, valid, checks) == [exists |-> exists, valid |-> valid, checks |-> checks]

\* what one iteration of the inner loop did
CheckIteration(repo, check, title, open_issue, matched, looked_up, outcome) ==
    [check |-> check, idle |-> FALSE, repo |-> repo, title |-> title,
     open_issue |-> open_issue, matched |-> matched, looked_up |-> looked_up,
     outcome |-> outcome]

CodeCheckInit ==
    /\ TrimIdle
    /\ RetryIdle
    /\ platform = [idle |-> TRUE]
    /\ ret = [pending |-> TRUE]
    /\ client_pc = "idle"
    /\ environ \in Environments
    /\ github_clients = {}
    /\ dry_run \in BOOLEAN
    /\ \E org \in {"None", "org-a"}, repos_yaml \in BOOLEAN :
         /\ \E config \in { Config(FALSE, TRUE, <<>>), Config(TRUE, FALSE, <<>>) }
                          \cup { Config(TRUE, TRUE, checks) :
                                   checks \in SeqsUpTo(CodeChecks, MaxChecks) } :
              call = [fn |-> "check_code_patterns", org |-> org,
                      repos_yaml |-> repos_yaml, config |-> config]
         /\ repos \in SeqsUpTo({ Repo(owner, 0) :
                                   owner \in (IF org = "None" \/ repos_yaml THEN Owners
                                              ELSE {org}) }, MaxRepos)
    /\ repo_idx = 0
    /\ pr_idx = 0
    /\ total_prs = 0
    /\ total_issues = 0
    /\ last = [pr |-> 0, idle |-> TRUE]
    /\ scan_pc = "load"
    /\ CheckIdle

\* lines 154-201: the checks are loaded, then the client of the discovery
\* and the repositories to check
LoadChecks ==
    /\ scan_pc = "load"
    /\ LET config == call.config
           org == IF call.repos_yaml THEN "None" ELSE call.org
           got == get_github_client(github_clients, environ, org)
       IN  IF ~config.exists \/ ~config.valid \/ config.checks = <<>>
           THEN /\ scan_pc' = "done"
                /\ ret' = Return(<<>>, <<>>)
                /\ UNCHANGED <<github_clients, repo_idx, code_checks>>
           ELSE IF got.exc # ""
           THEN /\ scan_pc' = "raised"
                /\ ret' = Raise(got.exc, <<>>)
                /\ code_checks' = config.checks
                /\ UNCHANGED <<github_clients, repo_idx>>
           ELSE /\ code_checks' = config.checks
                /\ github_clients' = got.clients
                /\ repo_idx' = 1
                /\ scan_pc' = "check_repo"
                /\ UNCHANGED ret
    /\ UNCHANGED <<platform, call, client_pc, environ, dry_run, repos, pr_idx, total_prs,
                   total_issues, last, check_idx, total_checks, total_matches, checked,
                   trimVars, retryVars>>

\* lines 203-208: the client of the next repository
CheckRepo ==
    /\ scan_pc = "check_repo"
    /\ repo_idx <= Len(repos)
    /\ LET repo == repos[repo_idx]
           repo_org == IF repo.is_personal THEN "None" ELSE repo.owner
           got == get_github_client(github_clients, environ, repo_org)
       IN  IF got.exc # ""
           THEN /\ scan_pc' = "raised"
                /\ ret' = Raise(got.exc, <<>>)
                /\ UNCHANGED <<github_clients, check_idx>>
           ELSE /\ github_clients' = got.clients
                /\ check_idx' = 1
                /\ scan_pc' = "check"
                /\ UNCHANGED ret
    /\ UNCHANGED <<platform, call, client_pc, environ, dry_run, repos, repo_idx, pr_idx,
                   total_prs, total_issues, last, code_checks, total_checks,
                   total_matches, checked, trimVars, retryVars>>

\* the inner loop goes to its next check, or the outer loop to its next repository
ContinueCheck ==
    IF check_idx < Len(code_checks)
    THEN check_idx' = check_idx + 1 /\ UNCHANGED <<repo_idx, scan_pc>>
    ELSE check_idx' = 0 /\ repo_idx' = repo_idx + 1 /\ scan_pc' = "check_repo"

\* lines 318-334: the issue is created, unless the run is dry
CreateCheckIssue(check, open_issue) ==
    IF dry_run
    THEN /\ checked' = CheckIteration(repo_idx, check_idx, check.issue_title, open_issue,
                                      TRUE, TRUE, "dry_run")
         /\ UNCHANGED total_issues
    ELSE \E creation \in {"created", "failed"} :
           /\ checked' = CheckIteration(repo_idx, check_idx, check.issue_title,
                                        open_issue, TRUE, TRUE, creation)
           /\ total_issues' = IF creation = "created" THEN total_issues + 1
                              ELSE total_issues

\* lines 235-341: the files or the search results are fetched and looked at
LookForPattern(check, open_issue, found, matched) ==
    IF ~found
    THEN /\ checked' = CheckIteration(repo_idx, check_idx, check.issue_title, open_issue,
                                      matched, TRUE, "nothing_found")
         /\ UNCHANGED <<total_matches, total_issues>>
    ELSE IF ~matched
    THEN /\ checked' = CheckIteration(repo_idx, check_idx, check.issue_title, open_issue,
                                      matched, TRUE, "no_match")
         /\ UNCHANGED <<total_matches, total_issues>>
    ELSE /\ total_matches' = total_matches + 1
         /\ CreateCheckIssue(check, open_issue)

\* lines 210-345: one check of one repository
CheckPattern ==
    /\ scan_pc = "check"
    /\ total_checks' = total_checks + 1
    /\ \E open_issue \in BOOLEAN, found \in BOOLEAN, matched \in BOOLEAN :
         /\ matched => found
         /\ code_checks[check_idx].target = "search_repo" => (matched <=> found)
         /\ LET check == code_checks[check_idx]
                existing_issue == call_client("check_file_for_issue_exists", open_issue)
            IN  IF existing_issue.exc # ""
                THEN /\ checked' = CheckIteration(repo_idx, check_idx, check.issue_title,
                                                  open_issue, matched, FALSE, "error")
                     /\ UNCHANGED <<total_matches, total_issues>>
                ELSE IF existing_issue.value
                THEN /\ checked' = CheckIteration(repo_idx, check_idx, check.issue_title,
                                                  open_issue, matched, TRUE, "skipped")
                     /\ UNCHANGED <<total_matches, total_issues>>
                ELSE LookForPattern(check, open_issue, found, matched)
    /\ ContinueCheck
    /\ UNCHANGED <<platform, call, ret, client_pc, environ, github_clients, dry_run,
                   repos, pr_idx, total_prs, last, code_checks, trimVars, retryVars>>

\* line 347: the scan is complete
CheckFinish ==
    /\ scan_pc = "check_repo"
    /\ repo_idx > Len(repos)
    /\ scan_pc' = "done"
    /\ ret' = Return(<<>>, <<>>)
    /\ UNCHANGED <<platform, call, client_pc, environ, github_clients, dry_run, repos,
                   repo_idx, pr_idx, total_prs, total_issues, last, checkVars, trimVars,
                   retryVars>>

CodeCheckNext == LoadChecks \/ CheckRepo \/ CheckPattern \/ CheckFinish

SpecCodeCheck == CodeCheckInit /\ [][CodeCheckNext]_vars

----------------------------------------------------------------------------
(* The issue of a pull request, filed by one scan and looked for by the    *)
(* next: process_all builds the title, find_existing_issues reads it.      *)

\* the numbers of the pull requests: one is the start of another
PrNumbers == {4, 42, 24}

RoundTripInit ==
    /\ TrimIdle
    /\ RetryIdle
    /\ ScanIdle
    /\ \E others \in SeqsUpTo(Entries, 1) :
         platform = [pages |-> ListingPages(<<Numbered(others)>>, 0,
                                            [status |-> 0, json |-> TRUE], 1)]
    /\ \E number \in PrNumbers, lookup \in PrNumbers, has_logs \in BOOLEAN,
          t \in 1..Len(PullTitles) :
         call = [fn |-> "round_trip", pr_number |-> number, lookup |-> lookup,
                 title |-> issue_title(has_logs, number, target_pkg(PullTitles[t]))]
    /\ ret = [pending |-> TRUE]
    /\ client_pc = "call"

\* agent.py lines 96-133: the issue is filed, and the listing of the open
\* issues holds it from then on, on whatever page
FileIssue ==
    /\ client_pc = "call"
    /\ call.fn = "round_trip"
    /\ LET others == platform.pages[1].items
           filed == [title |-> call.title, pull_request |-> FALSE]
       IN  \E items \in {<<filed>> \o others, others \o <<filed>>}, n \in 1..MaxPages,
              hop \in Hops :
             \E chunks \in Chunks(Numbered(items), n) :
               platform' = [pages |-> ListingPages(chunks, 0,
                                                   [status |-> 0, json |-> TRUE], hop)]
    /\ client_pc' = "filed"
    /\ UNCHANGED <<call, ret, trimVars, retryVars, scanVars>>

\* agent.py line 92: the next scan looks for the issues of a pull request
LookUpAgain ==
    /\ client_pc = "filed"
    /\ call.fn = "round_trip"
    /\ ret' = find_existing_issues(platform.pages, call.lookup)
    /\ client_pc' = "done"
    /\ UNCHANGED <<platform, call, trimVars, retryVars, scanVars>>

RoundTripNext == FileIssue \/ LookUpAgain

SpecRoundTrip == RoundTripInit /\ [][RoundTripNext]_vars

----------------------------------------------------------------------------
(* The two scans of RepoMaintainerAgent together *)

AgentInit == ScanInit \/ CodeCheckInit

AgentNext == ScanNext \/ CodeCheckNext

SpecAgent == AgentInit /\ [][AgentNext]_vars

----------------------------------------------------------------------------
(* Properties of the completion-marker trim *)

MarkerPositions(s) == { i \in 1..Len(s) : s[i] = Marker }

FirstMarker(s) == CHOOSE i \in MarkerPositions(s) : \A j \in MarkerPositions(s) : i <= j

LastMarker(s) == CHOOSE i \in MarkerPositions(s) : \A j \in MarkerPositions(s) : j <= i

TextBefore(s, pos) == SubSeq(s, 1, pos - 1)

\* the last n of the given lines
TailLines(lines, n) == [i \in 1..n |-> lines[Len(lines) - n + i]]

Smaller(a, b) == IF a <= b THEN a ELSE b

\* the (up to) line_count lines that end the stripped text before position pos
TailBefore(s, pos) ==
    LET lines == splitlines(strip(TextBefore(s, pos)))
    IN  join(TailLines(lines, Smaller(line_count, Len(lines))))

\* C6 as stated: a log with the marker preceded by more than 20 lines is
\* trimmed to exactly the last 20 lines that precede the marker.
C6_AsStated ==
    (/\ trim_pc = "done"
     /\ Cardinality(MarkerPositions(log_content)) = 1
     /\ Len(splitlines(TextBefore(log_content, FirstMarker(log_content)))) > line_count)
    => last_lines =
         join(TailLines(splitlines(TextBefore(log_content, FirstMarker(log_content))),
                        line_count))

\* C6 (amended): when the text before the first marker, stripped of leading
\* and trailing white space, has more than 20 lines, the result is exactly
\* the last 20 lines of that stripped text, joined by line breaks, and holds
\* nothing at or after the marker.
C6_TrimLast20OfStripped ==
    (/\ trim_pc = "done"
     /\ MarkerPositions(log_content) # {}
     /\ Len(splitlines(strip(TextBefore(log_content, FirstMarker(log_content)))))
            > line_count)
    => LET lines == splitlines(strip(TextBefore(log_content, FirstMarker(log_content))))
       IN  /\ last_lines = join(TailLines(lines, line_count))
           /\ Len(splitlines(last_lines)) = line_count
           /\ MarkerPositions(last_lines) = {}

C6_Witness ==
    /\ trim_pc = "done"
    /\ Cardinality(MarkerPositions(log_content)) = 1
    /\ Len(splitlines(strip(TextBefore(log_content, FirstMarker(log_content)))))
           > line_count
    /\ Len(splitlines(last_lines)) = line_count

\* C7 as stated: with several markers the trim is anchored at the last one:
\* the result is the (up to) 20 lines that precede the last marker.
C7_AsStated ==
    (trim_pc = "done" /\ Cardinality(MarkerPositions(log_content)) > 1)
    => last_lines = TailBefore(log_content, LastMarker(log_content))

\* C7 (amended): with several markers the trim is anchored at the first
\* one: the result is the (up to) 20 lines that precede the first marker.
C7_AnchoredAtFirstMarker ==
    (trim_pc = "done" /\ Cardinality(MarkerPositions(log_content)) > 1)
    => /\ last_lines = TailBefore(log_content, FirstMarker(log_content))
       /\ MarkerPositions(last_lines) = {}

C7_Witness ==
    /\ trim_pc = "done"
    /\ Cardinality(MarkerPositions(log_content)) > 1
    /\ last_lines # <<>>
    /\ last_lines # TailBefore(log_content, LastMarker(log_content))

\* C8: a log without the marker is returned unchanged when it has at most
\* 20 lines, and as exactly its last 20 lines when it has more.
C8_NoMarkerTail ==
    (trim_pc = "done" /\ MarkerPositions(log_content) = {})
    => LET lines == splitlines(log_content)
       IN  /\ Len(lines) <= line_count => last_lines = log_content
           /\ Len(lines) > line_count =>
                 last_lines = join(TailLines(lines, line_count))

C8_Witness ==
    /\ trim_pc = "done"
    /\ MarkerPositions(log_content) = {}
    /\ Len(splitlines(log_content)) > line_count
    /\ last_lines # log_content
    /\ Len(splitlines(last_lines)) = line_count

----------------------------------------------------------------------------
(* Properties of the workflow-run correlator *)

ClientDone(fn) == client_pc = "done" /\ call.fn = fn

\* the existence request of a run answered HTTP 200
Exists(run) == run.id # 0 /\ platform.run_status[run.id] = 200

RunRequests(runs) == [i \in 1..Len(runs) |-> Req("run", runs[i].id)]

\* C9: when the check suite exposes no workflow reference and no recent run
\* has the target check-suite id, the correlator returns the recent runs
\* that pass validation (empty only when none validates).
C9_FallbackToRecentRuns ==
    (/\ ClientDone("get_workflow_runs_by_check_suite")
     /\ platform.check_suite[call.check_suite_id].workflow = "none"
     /\ platform.check_suite[call.check_suite_id].json
     /\ platform.recent.status = 200
     /\ platform.recent.json
     /\ \A i \in 1..Len(platform.recent.runs) :
            platform.recent.runs[i].check_suite_id # call.check_suite_id)
    => /\ ret.exc = ""
       /\ ret.value = SelectSeq(platform.recent.runs, Exists)

C9_Witness ==
    /\ ClientDone("get_workflow_runs_by_check_suite")
    /\ platform.check_suite[call.check_suite_id] =
           [status |-> 200, json |-> TRUE, workflow |-> "none"]
    /\ platform.recent.status = 200
    /\ platform.recent.json
    /\ Len(platform.recent.runs) = MaxRecent
    /\ \A i \in 1..Len(platform.recent.runs) :
           platform.recent.runs[i].check_suite_id # call.check_suite_id
    /\ ~Exists(platform.recent.runs[1])
    /\ ret.value # <<>>

\* C10: the validation returns exactly the candidates whose existence
\* request answered HTTP 200, in input order; a candidate whose request
\* answers another status or fails is dropped and the rest is still
\* validated; one request is sent per candidate that has an id.
C10_ValidatedRunsAnswered200 ==
    ClientDone("_validate_workflow_runs")
    => /\ ret.exc = ""
       /\ ret.value = SelectSeq(call.workflow_runs, Exists)
       /\ ret.requests = RunRequests(SelectSeq(call.workflow_runs, HasId))

C10_Witness ==
    /\ ClientDone("_validate_workflow_runs")
    /\ Len(call.workflow_runs) = MaxCandidates
    /\ call.workflow_runs[1].id # 0
    /\ platform.run_status[call.workflow_runs[1].id] \in {0, 404}
    /\ ret.value = <<call.workflow_runs[Len(call.workflow_runs)]>>
    /\ Len(ret.requests) = MaxCandidates

----------------------------------------------------------------------------
(* Properties of get_pr_check_runs *)

\* the text was built by the log fetcher: it starts with a job banner
AttachedByFetcher(check_run) ==
    /\ check_run.output.set
    /\ check_run.output.text # <<>>
    /\ \E file \in UNION { { f.files[i] : i \in 1..Len(f.files) } :
                            f \in { platform.logs[r].archive : r \in RunIds } } :
           check_run.output.text[1] = Banner(file.stem)

\* the run of the response is failing and its logs can be fetched: the
\* correlator finds a workflow run and its archive holds a log file
Retrievable(run) ==
    /\ decode_conclusion(run) \in FailingConclusions
    /\ run.check_suite # "none"
    /\ LET found == get_workflow_runs_by_check_suite(platform, run.check_suite)
       IN  /\ found.exc = ""
           /\ found.value # <<>>
           /\ LET archive == get_workflow_logs(platform, found.value[1].id).value
              IN  /\ archive.kind = "zip"
                  /\ \E i \in 1..Len(archive.files) : archive.files[i].ext = ".txt"

ResponseFetched ==
    /\ platform.pull = OkResponse
    /\ platform.check_runs.status = 200
    /\ platform.check_runs.json

\* C1 as stated: of the check runs returned by one call at most one has log
\* text attached by the log fetcher, and it is the first run in list order
\* that is failing and whose logs are retrievable.
C1_AsStated ==
    (ClientDone("get_pr_check_runs") /\ ret.value # <<>>)
    => LET response == platform.check_runs.runs
           attached == { i \in 1..Len(ret.value) : AttachedByFetcher(ret.value[i]) }
       IN  /\ Cardinality(attached) <= 1
           /\ \A i \in attached :
                /\ Retrievable(response[i])
                /\ \A j \in 1..(i - 1) : ~Retrievable(response[j])

\* C2 as stated: once the check-run list has been fetched, one CheckRun is
\* returned per run of the response, in the original order, however the
\* log enrichment of any run ends.
C2_AsStated ==
    (/\ ClientDone("get_pr_check_runs")
     /\ ResponseFetched
     /\ \A i \in 1..Len(platform.check_runs.runs) :
            decode_conclusion(platform.check_runs.runs[i]) \in CheckRunConclusions)
    => /\ Len(ret.value) = Len(platform.check_runs.runs)
       /\ \A i \in 1..Len(ret.value) :
            /\ ret.value[i].name = platform.check_runs.runs[i].name
            /\ ret.value[i].conclusion = decode_conclusion(platform.check_runs.runs[i])

----------------------------------------------------------------------------
(* Properties of the code search retry *)

RateLimited(outcome) == outcome.exc = "HTTPStatusError" /\ outcome.status = 403

\* C5: the search is attempted again only after an attempt that failed
\* with status 403, it is attempted at most 3 times, a third 403 is raised
\* to the caller, and an attempt that succeeds or fails otherwise is the
\* last one.
C5_RetryOnlyOn403 ==
    call.fn = "search_code_in_repo"
    => /\ Len(attempts) <= 3
       /\ \A i \in 1..(Len(attempts) - 1) : RateLimited(attempts[i])
       /\ client_pc = "sleep" => RateLimited(attempts[Len(attempts)])
       /\ client_pc = "done"
          => /\ ret = attempts[Len(attempts)]
             /\ RateLimited(ret) => Len(attempts) = 3

C5_Witness ==
    /\ call.fn = "search_code_in_repo"
    /\ client_pc = "done"
    /\ Len(attempts) = 3
    /\ RateLimited(ret)
    /\ slept = <<60, 120>>

----------------------------------------------------------------------------
(* Properties of the scan loop *)

\* the scan has gone past the latest iteration
MovedOn ==
    \/ scan_pc = "pr" /\ repo_idx = last.repo /\ pr_idx = last.pr + 1
    \/ repo_idx > last.repo

\* C3: when the lookup of a pull request with a failing check run finds an
\* issue, no issue is created for that pull request and the scan goes on
\* to what follows it.
C3_ExistingIssueSkipsCreation ==
    (call.fn = "process_all" /\ last.failing /\ last.existing)
    => /\ last.created = "none"
       /\ last.exc = ""
       /\ MovedOn

C3_Witness ==
    /\ call.fn = "process_all"
    /\ last.failing
    /\ last.existing
    /\ last.created = "none"
    /\ scan_pc = "pr"
    /\ repo_idx = last.repo
    /\ pr_idx = last.pr + 1

\* C4: once the scan is among its repositories, no failure of one pull
\* request or one repository ends it: it never stops on an exception.
C4_AsStated ==
    (call.fn = "process_all" /\ repo_idx >= 1) => scan_pc # "raised"

----------------------------------------------------------------------------
(* Properties of the log enrichment of get_pr_check_runs *)

\* the requests of a log-fetch attempt for the check suite
SuiteRequests(requests, suite) ==
    { k \in 1..Len(requests) :
        requests[k].endpoint = "check_suite" /\ requests[k].id = suite }

\* C11 as stated: a log fetch is attempted for every run of the response
\* whose conclusion is failure, cancelled or timed_out, as long as no
\* earlier run of the batch got logs, and for no run with another
\* conclusion.
C11_AsStated ==
    (ClientDone("get_pr_check_runs") /\ ResponseFetched /\ ret.logged = "")
    => LET response == platform.check_runs.runs
           tried == { i \in 1..Len(response) :
                        /\ decode_conclusion(response[i]) \in FailingConclusions
                        /\ response[i].check_suite # "none"
                        /\ \A j \in 1..(i - 1) : ~AttachedByFetcher(ret.value[j]) }
       IN  /\ \A i \in tried : SuiteRequests(ret.requests, response[i].check_suite) # {}
           /\ tried = {} => \A k \in 1..Len(ret.requests) :
                               ret.requests[k].endpoint \in {"pull", "check_runs"}

\* C12: a run whose conclusion is null in the response is returned with
\* conclusion action_required, every returned CheckRun has one of the five
\* conclusions of the model class, and a null conclusion is not failing:
\* no logs are fetched for it and it is not among the failing runs.
C12_NullIsActionRequired ==
    ClientDone("get_pr_check_runs")
    => /\ \A i \in 1..Len(ret.value) :
            ret.value[i].conclusion \in
                {"success", "failure", "cancelled", "timed_out", "action_required"}
       /\ (ResponseFetched /\ ret.logged = "")
          => \A i \in 1..Len(platform.check_runs.runs) :
                platform.check_runs.runs[i].conclusion = "None"
                => /\ ret.value[i].conclusion = "action_required"
                   /\ ret.value[i].conclusion \notin FailingConclusions
                   /\ ~AttachedByFetcher(ret.value[i])
                   /\ \A k \in 1..Len(failing_runs(ret.value)) :
                        failing_runs(ret.value)[k].name # ret.value[i].name

C12_Witness ==
    /\ ClientDone("get_pr_check_runs")
    /\ ret.logged = ""
    /\ Len(ret.value) = 2
    /\ platform.check_runs.runs[1].conclusion = "None"
    /\ platform.check_runs.runs[1].check_suite = TargetSuite
    /\ ret.value[1].conclusion = "action_required"
    /\ AttachedByFetcher(ret.value[2])

\* C13: when the pull request resource cannot be fetched (no answer, an
\* error status, a body without the head commit), the call returns an
\* empty list, raises nothing, and the pull request is the only request.
C13_PullFailureReturnsEmpty ==
    (ClientDone("get_pr_check_runs") /\ platform.pull # OkResponse)
    => /\ ret.exc = ""
       /\ ret.value = <<>>
       /\ ret.requests = <<Req("pull", call.pr_number)>>

C13_Witness ==
    /\ ClientDone("get_pr_check_runs")
    /\ platform.pull.status = 200
    /\ ~platform.pull.json
    /\ platform.check_runs.runs # <<>>
    /\ ret.value = <<>>
    /\ ret.logged = "KeyError"

\* the log archive of the workflow run cannot be had or holds no log file
AcquisitionFails(r) ==
    LET logs == platform.logs[r]
    IN  \/ logs.status # 302
        \/ ~logs.location
        \/ RequestFailed(logs.download)
        \/ logs.archive.kind # "zip"
        \/ \A i \in 1..Len(logs.archive.files) : logs.archive.files[i].ext # ".txt"

\* the correlator answers the workflow run of the suite
CorrelatorFinds(suite) ==
    LET found == get_workflow_runs_by_check_suite(platform, suite)
    IN  found.exc = "" /\ found.value # <<>>

\* C14 as stated: when the log acquisition of a failing check run fails
\* (transport error, no redirect location, no log entry in the archive,
\* an archive that cannot be unpacked), nothing is raised, every run of the
\* response is returned, and that check run has the output it had before.
C14_AsStated ==
    (/\ ClientDone("get_pr_check_runs")
     /\ ResponseFetched
     /\ \A i \in 1..Len(platform.check_runs.runs) :
            decode_conclusion(platform.check_runs.runs[i]) \in CheckRunConclusions
     /\ CorrelatorFinds(TargetSuite)
     /\ AcquisitionFails(RunOfSuite(TargetSuite)))
    => /\ ret.exc = ""
       /\ Len(ret.value) = Len(platform.check_runs.runs)
       /\ \A i \in 1..Len(ret.value) :
            /\ ret.value[i].name = platform.check_runs.runs[i].name
            /\ platform.check_runs.runs[i].check_suite = TargetSuite
               => ret.value[i].output = decode_output(platform.check_runs.runs[i])

----------------------------------------------------------------------------
(* Properties of get_workflow_logs *)

Downloads(requests) == { k \in 1..Len(requests) : requests[k].endpoint = "download" }

\* C15: get_workflow_logs raises nothing; it returns None without asking
\* for the download when the run lookup or the logs endpoint answers 404,
\* when the logs endpoint answers another status than 302, or when the 302
\* has no location; it returns bytes only after a 302 with a location
\* whose download succeeded.
C15_LogsOnlyAfterRedirect ==
    ClientDone("get_workflow_logs")
    => LET run_status == platform.run_status[call.run_id]
           logs == platform.logs[call.run_id]
       IN  /\ ret.exc = ""
           /\ (run_status = 404 \/ logs.status # 302 \/ ~logs.location)
              => (ret.value = NoArchive /\ Downloads(ret.requests) = {})
           /\ ret.value # NoArchive
              => /\ logs.status = 302
                 /\ logs.location
                 /\ logs.download = 200
                 /\ Downloads(ret.requests) # {}
                 /\ ret.value = logs.archive

C15_Witness ==
    /\ ClientDone("get_workflow_logs")
    /\ platform.run_status[call.run_id] = 200
    /\ platform.logs[call.run_id].status = 200
    /\ platform.logs[call.run_id].location
    /\ platform.logs[call.run_id].download = 200
    /\ ret.value = NoArchive
    /\ Len(ret.requests) = 2

----------------------------------------------------------------------------
(* Properties of the outcomes and the waits of the code search *)

Searching == call.fn = "search_code_in_repo"

\* C16: an attempt whose search request is answered 422 returns an empty
\* list, raises nothing, and is the last attempt of the call.
C16_UnprocessableIsEmpty ==
    Searching
    => \A i \in 1..Len(attempts) :
          responses[i].status = 422
          => /\ attempts[i].exc = ""
             /\ attempts[i].value = <<>>
             /\ i = Len(attempts)
             /\ client_pc = "done"
             /\ ret = attempts[i]
             /\ Len(slept) = i - 1

C16_Witness ==
    /\ Searching
    /\ client_pc = "done"
    /\ Len(attempts) = 1
    /\ responses[1].status = 422
    /\ ret.exc = ""
    /\ ret.value = <<>>
    /\ slept = <<>>

\* C17: an attempt whose search request fails with a status other than
\* 403 and 422, or without a status, raises that error to the caller and
\* is the last attempt: when it is the first attempt, the call made one
\* attempt and waited for nothing.
C17_OtherErrorsRaisedAtOnce ==
    Searching
    => \A i \in 1..Len(attempts) :
          (responses[i].status = 0
             \/ (responses[i].status >= 400 /\ responses[i].status \notin {403, 422}))
          => /\ attempts[i].exc # ""
             /\ attempts[i].exc = "HTTPStatusError" <=> responses[i].status # 0
             /\ attempts[i].status = responses[i].status
             /\ i = Len(attempts)
             /\ client_pc = "done"
             /\ ret = attempts[i]
             /\ Len(slept) = i - 1

C17_Witness ==
    /\ Searching
    /\ client_pc = "done"
    /\ Len(attempts) = 1
    /\ responses[1].status = 500
    /\ ret.exc = "HTTPStatusError"
    /\ ret.status = 500
    /\ slept = <<>>

----------------------------------------------------------------------------
(* Properties of the issue lookups *)

\* the pages of the listing that the call asked for and that were answered
PagesRead ==
    { k \in { ret.requests[i].id : i \in 1..Len(ret.requests) } :
        /\ k # 0
        /\ ~RequestFailed(platform.pages[k].status)
        /\ platform.pages[k].json }

\* the entries of the pages read that are issues with exactly this title
IssuesTitled(title) ==
    { <<i, k>> \in PagesRead \X (1..MaxIssues) :
        /\ k <= Len(platform.pages[i].items)
        /\ ~platform.pages[i].items[k].pull_request
        /\ platform.pages[i].items[k].title = title }

\* C19 as stated: neither lookup counts an entry of the listing that is a
\* pull request: find_existing_issues returns no such entry, and
\* issue_exists_with_title is true only for an entry that is an issue.
C19_AsStated ==
    /\ ClientDone("find_existing_issues")
       => \A k \in 1..Len(ret.value) : ~ret.value[k].pull_request
    /\ (ClientDone("issue_exists_with_title") /\ ret.value)
       => IssuesTitled(call.title) # {}

\* C20: issue_exists_with_title is true exactly when, on the pages it
\* read, an entry that is not a pull request has the target as its title;
\* titles that only hold the target or are held by it do not count.
C20_ExactTitleOnly ==
    ClientDone("issue_exists_with_title")
    => /\ ret.exc = ""
       /\ ret.value <=> IssuesTitled(call.title) # {}

C20_Witness ==
    /\ ClientDone("issue_exists_with_title")
    /\ call.title = <<"Dependabot", "PR", "#5">>
    /\ ~ret.value
    /\ Len(ret.requests) = 2
    /\ PagesRead = {1, 2}
    /\ \E k \in 1..Len(platform.pages[2].items) :
          /\ ~platform.pages[2].items[k].pull_request
          /\ Len(platform.pages[2].items[k].title) > 3
          /\ SubSeq(platform.pages[2].items[k].title, 1, 3) = call.title

----------------------------------------------------------------------------
(* Properties of the Link header parser *)

\* the members of the header that are links <URL>; rel="next"
NextLinks ==
    { i \in 1..Len(call.links) :
        call.links[i].kind = "link" /\ call.links[i].rel = NextRelation }

\* C27: for a header in which rel="next" does not occur (the empty header,
\* a header with other relations only, a malformed header) the parser
\* returns None.
C27_NoNextRelationNoUrl ==
    (/\ ClientDone("_get_next_url_from_link_header")
     /\ \A i \in 1..Len(call.link_header) : call.link_header[i] # NextRelation)
    => ret = NoUrl

C27_Witness ==
    /\ ClientDone("_get_next_url_from_link_header")
    /\ Len(call.links) = 2
    /\ call.links[1].kind = "link" /\ call.links[1].rel = Quoted("prev")
    /\ call.links[2].kind = "unclosed" /\ call.links[2].rel = "rel=next"
    /\ ret = NoUrl

\* C28: for a header made of links <URL>; rel="..." of which exactly one
\* has rel="next", in whatever place, the parser returns the tokens
\* between the angle brackets of that link and of no other.
C28_OnlyNextLinkUrl ==
    (/\ ClientDone("_get_next_url_from_link_header")
     /\ \A i \in 1..Len(call.links) : call.links[i].kind = "link"
     /\ Cardinality(NextLinks) = 1)
    => \A i \in NextLinks : ret = [none |-> FALSE, url |-> call.links[i].url]

C28_Witness ==
    /\ ClientDone("_get_next_url_from_link_header")
    /\ Len(call.links) = 2
    /\ call.links[1] = [kind |-> "link", url |-> PageUrl(1), blanks |-> 1,
                        rel |-> Quoted("prev")]
    /\ call.links[2] = [kind |-> "link", url |-> PageUrl(2), blanks |-> 2,
                        rel |-> NextRelation]
    /\ ret = [none |-> FALSE, url |-> PageUrl(2)]

----------------------------------------------------------------------------
(* Properties of the paginated listing loops *)

ListingLoops ==
    {"list_dependabot_prs", "find_existing_issues", "issue_exists_with_title",
     "list_owned_repos"}

\* the page numbers the call asked for, in order
Asked == [i \in 1..Len(ret.requests) |-> ret.requests[i].id]

\* the Link header of page k names page k2 as the next page
NamesAsNext(k, k2) ==
    LET link == platform.pages[k].link
        text == LinkText(PageLink("next", k2))
    IN  \E i \in 0..(Len(link) - Len(text)) : SubSeq(link, i + 1, i + Len(text)) = text

HasNextLink(k) == \E k2 \in 1..Len(platform.pages) : NamesAsNext(k, k2)

\* the lookup by title has returned at its first match
FoundByTitle == call.fn = "issue_exists_with_title" /\ ret.value

Answered ==
    { k \in { Asked[i] : i \in 1..Len(Asked) } :
        k # 0 /\ ~RequestFailed(platform.pages[k].status) /\ platform.pages[k].json }

\* list_owned_repos of an organisation has met a repository older than the
\* cut-off date on the last page it asked for
StoppedAtStale ==
    /\ call.fn = "list_owned_repos"
    /\ call.org # "None"
    /\ \E k \in Answered :
          /\ k = Asked[Len(Asked)]
          /\ \E i \in 1..Len(platform.pages[k].items) :
                platform.pages[k].items[i].updated_at = "old"

----------------------------------------------------------------------------
(* Properties of the issue lookups when a request fails *)

IssueLookups == {"find_existing_issues", "issue_exists_with_title"}

\* the last request of the call failed: no answer, an error status or a
\* body that is not JSON
LastRequestFailed ==
    /\ Asked # <<>>
    /\ Asked[Len(Asked)] \notin Answered

\* C22 as stated: after a failed request the lookup raises nothing,
\* issue_exists_with_title is False and find_existing_issues is empty.
C22_AsStated ==
    (client_pc = "done" /\ call.fn \in IssueLookups /\ LastRequestFailed)
    => /\ ret.exc = ""
       /\ call.fn = "issue_exists_with_title" => ret.value = FALSE
       /\ call.fn = "find_existing_issues" => ret.value = <<>>

\* the entries with a matching title on the pages answered before the failure
MatchesRead ==
    { <<k, i>> \in Answered \X (1..MaxIssues) :
        /\ i <= Len(platform.pages[k].items)
        /\ pr_pattern_search(platform.pages[k].items[i].title, call.pr_number) }

\* C22: after a failed request the lookup raises nothing;
\* issue_exists_with_title is False, and find_existing_issues returns the
\* matches of the pages it read before the failure, so the empty list
\* when the first request failed or nothing before had matched.
C22_FailureKeepsEarlierMatches ==
    (client_pc = "done" /\ call.fn \in IssueLookups /\ LastRequestFailed)
    => /\ ret.exc = ""
       /\ call.fn = "issue_exists_with_title" => ret.value = FALSE
       /\ call.fn = "find_existing_issues"
          => /\ Len(ret.value) = Cardinality(MatchesRead)
             /\ \A m \in MatchesRead :
                   \E j \in 1..Len(ret.value) :
                      ret.value[j] = platform.pages[m[1]].items[m[2]]
             /\ Len(Asked) = 1 => ret.value = <<>>

C22_Witness ==
    /\ ClientDone("find_existing_issues")
    /\ LastRequestFailed
    /\ Len(Asked) = 2
    /\ Len(ret.value) = 1
    /\ ret.exc = ""

----------------------------------------------------------------------------
(* Properties of the issue title *)

\* the latest iteration built an issue for a pull request with failing runs
IssueBuilt == call.fn = "process_all" /\ last.failing /\ last.title # <<>>

\* the latest pull request has a failing check run and a title that
\* starts with "Bump <pkg> " or "Update <pkg> "
BumpOf(pkg) ==
    /\ call.fn = "process_all"
    /\ last.failing
    /\ last.pr # 0
    /\ Len(pr_title(last.repo, last.pr)) > 2
    /\ pr_title(last.repo, last.pr)[1] \in {"Bump", "Update"}
    /\ pr_title(last.repo, last.pr)[2] = pkg

Packages == {"requests", "django"}

----------------------------------------------------------------------------
(* Properties of the issue creation in the scan *)

\* the step is an iteration in which create_issue_graphql raised
CreationFails == call.fn = "process_all" /\ scan_pc = "pr" /\ last'.created = "failed"

\* C24: an iteration whose issue creation raises ends like any other: the
\* exception goes no further, total_issues keeps its value and the scan
\* is at the pull request or the repository that follows.
C24_CreationFailureCaught ==
    [][CreationFails
       => /\ last'.exc = ""
          /\ scan_pc' # "raised"
          /\ ret' = ret
          /\ total_issues' = total_issues
          /\ total_prs' = total_prs + 1
          /\ \/ scan_pc' = "pr" /\ repo_idx' = repo_idx /\ pr_idx' = pr_idx + 1
             \/ scan_pc' = "repo" /\ repo_idx' = repo_idx + 1]_vars

\* a creation has failed and the scan is at the next pull request
C24_Witness ==
    /\ call.fn = "process_all"
    /\ last.created = "failed"
    /\ last.exc = ""
    /\ scan_pc = "pr"
    /\ repo_idx = last.repo
    /\ pr_idx = last.pr + 1
    /\ total_prs = 1
    /\ total_issues = 0

----------------------------------------------------------------------------
(* Properties of the requests of one call *)

MetadataReads ==
    {"pull", "check_runs", "check_suite", "workflow_runs", "recent_runs", "run", "issues"}

\* the requests of the call for one URL
RequestsFor(endpoint, id) ==
    { i \in 1..Len(ret.requests) :
        ret.requests[i].endpoint = endpoint /\ ret.requests[i].id = id }

\* the URLs the call asked for
Urls ==
    { <<ret.requests[i].endpoint, ret.requests[i].id>> : i \in 1..Len(ret.requests) }

Mutations == RequestsFor("create_issue", 0)

\* C25 as stated: a call sends at most one create-issue mutation and asks
\* for each URL of a metadata read at most once.
C25_AsStated ==
    client_pc = "done"
    => /\ Cardinality(Mutations) <= 1
       /\ \A u \in Urls :
             u[1] \in MetadataReads => Cardinality(RequestsFor(u[1], u[2])) <= 1

\* the failing runs of the check-runs response that belong to the suite
EnrichableRuns(suite) ==
    { i \in 1..Len(platform.check_runs.runs) :
        /\ platform.check_runs.runs[i].check_suite = suite
        /\ decode_conclusion(platform.check_runs.runs[i]) \in enriched_conclusions }

\* C25: no request is sent again because of its answer.  A call sends at
\* most one query of the ids and one create-issue mutation; the pull
\* request, the check runs and each issue page are asked for at most once;
\* the check suite is asked for at most once for each failing check run of
\* that suite, and the workflow-run listings and the run itself at most
\* twice for each time the check suite was asked for.
C25_NothingSentAgain ==
    client_pc = "done"
    => /\ Cardinality(Mutations) <= 1
       /\ Cardinality(RequestsFor("graphql_ids", 0)) <= 1
       /\ \A u \in Urls :
             /\ u[1] \in {"pull", "check_runs", "issues"}
                => Cardinality(RequestsFor(u[1], u[2])) = 1
             /\ u[1] = "check_suite"
                => Cardinality(RequestsFor(u[1], u[2])) <= Cardinality(EnrichableRuns(u[2]))
             /\ u[1] \in {"workflow_runs", "recent_runs", "run"}
                => Cardinality(RequestsFor(u[1], u[2]))
                   <= 2 * Cardinality({ i \in 1..Len(ret.requests) :
                                          ret.requests[i].endpoint = "check_suite" })

\* the check suite of two failing runs is asked for twice in one call
C25_Witness ==
    /\ ClientDone("get_pr_check_runs")
    /\ Cardinality(RequestsFor("check_suite", TargetSuite)) = 2
    /\ Cardinality(EnrichableRuns(TargetSuite)) = 2
    /\ Cardinality(RequestsFor("pull", call.pr_number)) = 1

----------------------------------------------------------------------------
(* Properties of the code-pattern scan *)

\* a check of the scan has run
CheckRan == ~checked.idle

\* C26: for each repository and check, check_code_patterns looks up an open
\* issue under the title of the check, leaves the check alone when there is
\* one, and otherwise files an issue when the pattern matches
C26_AsStated ==
    CheckRan =>
      /\ checked.looked_up
      /\ checked.open_issue => checked.outcome = "skipped"
      /\ (~checked.open_issue /\ checked.matched /\ ~dry_run)
            => checked.outcome \in {"created", "failed"}

----------------------------------------------------------------------------
(* Properties of the order of the correlator's strategies *)

\* the correlator has returned a list
Correlated == ClientDone("get_workflow_runs_by_check_suite") /\ ret.exc = ""

\* the request was answered with a decodable body
ListingAnswered(resp) == ~RequestFailed(resp.status) /\ resp.json

\* the runs of a listing that answer HTTP 200 to their existence request
Validated(runs) == SelectSeq(runs, Exists)

\* the check suite answers with a workflow reference
HasWorkflowReference ==
    /\ ListingAnswered(platform.check_suite[call.check_suite_id])
    /\ platform.check_suite[call.check_suite_id].workflow # "none"

\* the recent runs with the check-suite id asked for
ExactMatches ==
    SelectSeq(platform.recent.runs,
              LAMBDA run : run.check_suite_id = call.check_suite_id)

\* what each strategy has to offer on this platform
YieldOfReference ==
    IF HasWorkflowReference
    THEN LET listing ==
               platform.workflow_runs[platform.check_suite[call.check_suite_id].workflow]
         IN  IF ListingAnswered(listing) THEN Validated(listing.runs) ELSE <<>>
    ELSE <<>>

YieldOfMatches ==
    IF ListingAnswered(platform.recent) THEN Validated(ExactMatches) ELSE <<>>

YieldOfRecent ==
    IF ListingAnswered(platform.recent) THEN Validated(platform.recent.runs) ELSE <<>>

AsksRecentRuns == \E i \in 1..Len(ret.requests) : ret.requests[i].endpoint = "recent_runs"

\* C29 as stated: a strategy that yields an empty list is followed by the
\* next one, so an empty list is returned only when every strategy yields
\* nothing
C29_AsStated ==
    (Correlated /\ ret.value = <<>>)
    => (YieldOfReference = <<>> /\ YieldOfMatches = <<>> /\ YieldOfRecent = <<>>)

\* C29: the check suite is asked first.  With a workflow reference the
\* validated runs of that workflow are the result, empty or not, and the
\* recent runs of the repository are not asked for; without one (or when
\* the check-suite request fails) the validated exact matches are the
\* result when there are any, and the validated recent runs otherwise.
C29_ReferenceEndsTheSearch ==
    Correlated =>
      /\ ret.requests[1].endpoint = "check_suite"
      /\ IF HasWorkflowReference
         THEN ret.value = YieldOfReference /\ ~AsksRecentRuns
         ELSE /\ AsksRecentRuns
              /\ ret.value = IF YieldOfMatches # <<>> THEN YieldOfMatches
                             ELSE YieldOfRecent

\* the workflow of the reference lists no run while a recent run of the
\* repository validates: the result is empty
C29_Witness ==
    /\ Correlated
    /\ HasWorkflowReference
    /\ YieldOfReference = <<>>
    /\ YieldOfMatches # <<>>
    /\ ret.value = <<>>

\* every run of the result answered HTTP 200 to its existence request
ReturnsValidatedRuns == \A i \in 1..Len(ret.value) : Exists(ret.value[i])

\* C30 as stated: with a workflow reference the validated runs of that
\* workflow are returned, and whenever recent runs with the check-suite id
\* validate, exactly those are returned
C30_AsStated ==
    Correlated =>
      /\ ReturnsValidatedRuns
      /\ HasWorkflowReference => ret.value = YieldOfReference
      /\ YieldOfMatches # <<>> => ret.value = YieldOfMatches

\* C30: with a workflow reference the validated runs of that workflow are
\* returned; without one, when recent runs with the check-suite id validate,
\* exactly those are returned; every returned run answered HTTP 200
C30_MatchesWithoutReference ==
    Correlated =>
      /\ ReturnsValidatedRuns
      /\ HasWorkflowReference => ret.value = YieldOfReference
      /\ (~HasWorkflowReference /\ YieldOfMatches # <<>>) => ret.value = YieldOfMatches

\* no workflow reference, and of two recent runs that validate only the one
\* with the check-suite id is returned
C30_Witness ==
    /\ Correlated
    /\ ~HasWorkflowReference
    /\ Len(YieldOfRecent) = 2
    /\ Len(YieldOfMatches) = 1
    /\ ret.value = YieldOfMatches

----------------------------------------------------------------------------
(* Properties of the search for logs among the failing check runs *)

\* the check suites for which logs are to be looked for: those of the
\* failing runs, in list order, up to the first run whose logs are had
RECURSIVE SuitesToTry(_, _)
SuitesToTry(data, found) ==
    IF data = <<>> THEN <<>>
    ELSE LET run == Head(data)
         IN  IF /\ ~found
                /\ decode_conclusion(run) \in FailingConclusions
                /\ run.check_suite # "none"
             THEN <<run.check_suite>> \o SuitesToTry(Tail(data), Retrievable(run))
             ELSE SuitesToTry(Tail(data), found)

\* the check suites the call asked for, in the order of its requests
SuitesTried(requests) ==
    LET asked == SelectSeq(requests, LAMBDA r : r.endpoint = "check_suite")
    IN  [k \in 1..Len(asked) |-> asked[k].id]

\* C31 as stated: a failing run whose log acquisition yields nothing does
\* not end the search; logs are looked for on each following failing run,
\* in list order, until one run gets logs, and for no run after that one
C31_AsStated ==
    (/\ ClientDone("get_pr_check_runs")
     /\ ResponseFetched
     /\ \A i \in 1..Len(platform.check_runs.runs) :
            decode_conclusion(platform.check_runs.runs[i]) \in CheckRunConclusions)
    => SuitesTried(ret.requests) = SuitesToTry(platform.check_runs.runs, FALSE)

----------------------------------------------------------------------------
(* Properties of the dry run *)

\* the latest pull request of process_all, or check of check_code_patterns,
\* went as far as a call of create_issue_graphql
CreationCalled ==
    \/ call.fn = "process_all" /\ last.created \in {"created", "failed"}
    \/ call.fn = "check_code_patterns" /\ ~checked.idle
       /\ checked.outcome \in {"created", "failed"}

\* C32: with dry_run set neither scan calls create_issue_graphql and no
\* issue is counted, while a pull request with a failing check run is still
\* counted and looked up, and its issue is still built when the lookup
\* finds nothing
C32_DryRunCreatesNothing ==
    dry_run =>
      /\ ~CreationCalled
      /\ total_issues = 0
      /\ (call.fn = "process_all" /\ last.failing)
         => /\ total_prs >= 1
            /\ (~last.existing /\ last.exc = "")
               => (last.created = "dry_run" /\ last.title # <<>>)

\* a dry run has built the issue of a pull request and gone on
C32_Witness ==
    /\ dry_run
    /\ call.fn = "process_all"
    /\ last.failing
    /\ ~last.existing
    /\ last.created = "dry_run"
    /\ last.title # <<>>
    /\ total_prs = 2
    /\ total_issues = 0
    /\ scan_pc = "done"

----------------------------------------------------------------------------
(* Properties of the title round trip *)

\* the lookup returned the issue the first scan filed
FiledIssueFound == \E i \in 1..Len(ret.value) : ret.value[i].title = call.title

\* C33: the title process_all builds for pull request N, with logs or
\* without, is found by the lookup for N and by the lookup for no other
\* number, even one whose digits start those of N; so the next scan, with
\* the issue listed, leaves pull request N alone
C33_TitleFoundByItsNumberOnly ==
    (call.fn = "round_trip" /\ client_pc = "done")
    => /\ FiledIssueFound <=> call.lookup = call.pr_number
       /\ pr_pattern_search(call.title, call.lookup) <=> call.lookup = call.pr_number
       /\ call.lookup = call.pr_number => skip_existing(ret.value)

\* the issue of pull request 42 (title without logs) is on the second page
\* and the lookup for pull request 4 does not return it
C33_Witness ==
    /\ call.fn = "round_trip"
    /\ client_pc = "done"
    /\ call.pr_number = 42
    /\ call.lookup = 4
    /\ call.title[2] = "#42"
    /\ Len(platform.pages) >= 2
    /\ platform.pages[1].items # <<>>
    /\ platform.pages[1].items[1].title # call.title
    /\ ~FiledIssueFound

----------------------------------------------------------------------------
(* Properties of the issues of one scan *)

\* the pull request of the iteration has a failing check run
HasFailingRun(iteration) == iteration.conclusions \cap FailingConclusions # {}

\* the iteration called create_issue_graphql
CalledCreation(iteration) == iteration.created \in {"created", "failed"}

\* C34: in one scan of process_all every pull request is gone through
\* once and gets at most one creation call, only when it has a check run
\* with conclusion failure, cancelled or timed_out; a pull request without
\* check runs or without a failing one gets no issue and is not counted
C34_OneIssuePerFailingPR ==
    [][(call.fn = "process_all" /\ last' # last)
        => /\ \/ last'.repo > last.repo
              \/ last'.repo = last.repo /\ last'.pr > last.pr
           /\ total_issues' \in {total_issues, total_issues + 1}
           /\ total_issues' > total_issues => last'.created = "created"
           /\ CalledCreation(last') => HasFailingRun(last')
           /\ ~HasFailingRun(last')
              => /\ last'.created = "none"
                 /\ total_issues' = total_issues
                 /\ total_prs' = total_prs]_vars

\* after a pull request that got its issue, one whose check runs all
\* succeeded has gone by without an issue and without being counted
C34_Witness ==
    /\ call.fn = "process_all"
    /\ last.pr = 2
    /\ last.conclusions = {"success"}
    /\ last.created = "none"
    /\ total_prs = 1
    /\ total_issues = 1

----------------------------------------------------------------------------
(* Properties of the call of the summarizer *)

\* a failing check run of the pull request carries a text
FailingRunHasText(iteration) == iteration.with_text \cap FailingConclusions # {}

\* C35: the summarizer is called for a pull request only after the lookup
\* found no issue and only when a failing check run carries a text; when
\* none does it is not called, and the issue is titled 'Dependabot #N to
\* upgrade ...' and labelled dependabot-agent and failed_ci
C35_SummarizerOnlyWithLogs ==
    (call.fn = "process_all" /\ last.pr > 0)
    => /\ last.analyzed => (~last.existing /\ FailingRunHasText(last))
       /\ (HasFailingRun(last) /\ ~last.existing /\ ~FailingRunHasText(last))
          => /\ ~last.analyzed
             /\ last.exc = ""
             /\ SubSeq(last.title, 1, 4)
                  = <<"Dependabot", NumberWord(last.pr), "to", "upgrade">>
             /\ last.labels = <<"dependabot-agent", "failed_ci">>

\* the failing run has an output without text: the generic issue is filed
\* and the summarizer was not asked
C35_Witness ==
    /\ call.fn = "process_all"
    /\ last.pr > 0
    /\ last.conclusions = {"failure"}
    /\ last.with_text = {}
    /\ ~last.existing
    /\ ~last.analyzed
    /\ last.created = "created"
    /\ last.labels = <<"dependabot-agent", "failed_ci">>

----------------------------------------------------------------------------
(* Properties of a rate limit met while the matched files are fetched *)

\* the attempt ended with the 403 of a content request
ContentDenied(outcome) ==
    /\ outcome.exc = "HTTPStatusError"
    /\ outcome.status = 403
    /\ Len(outcome.requests) > 1

\* the attempt sent the search request and then fetched the files from
\* the first one on
FromTheStart(outcome) ==
    /\ outcome.requests[1] = Req("search", 0)
    /\ \A k \in 2..Len(outcome.requests) : outcome.requests[k] = Req("contents", k - 1)

\* C36: an attempt of search_code_in_repo that ends with a 403 on a
\* content request raises it to the retry: before the third attempt the
\* call sleeps and runs again, the third one hands the error to the
\* caller; every attempt sends the search request and fetches the files
\* again from the first one, and there are at most three attempts
C36_ContentRateLimitRetried ==
    [][(Searching /\ attempts' # attempts)
        => LET n == Len(attempts')
               outcome == attempts'[n]
           IN  /\ n = Len(attempts) + 1
               /\ n <= stop_after_attempt
               /\ FromTheStart(outcome)
               /\ ContentDenied(outcome)
                  => IF n < stop_after_attempt
                     THEN client_pc' = "sleep" /\ ret' = ret
                     ELSE client_pc' = "done" /\ ret' = outcome]_vars

\* the second file of the first attempt was refused with a 403, and the
\* second attempt searched again and fetched both files again
C36_Witness ==
    /\ Searching
    /\ Len(attempts) = 2
    /\ ContentDenied(attempts[1])
    /\ Len(attempts[1].requests) = 3
    /\ attempts[2].exc = ""
    /\ Len(attempts[2].requests) = 3
    /\ Len(attempts[2].value) = 2
    /\ slept = <<60>>

----------------------------------------------------------------------------
(* Properties of the logs taken from the fallback runs *)

\* the recent runs of the repository with the check-suite id
RecentMatching(suite) ==
    SelectSeq(platform.recent.runs, LAMBDA run : run.check_suite_id = suite)

\* some recent runs have the check-suite id and none of them answers
\* HTTP 200 to its existence request
NoneValidates(suite) ==
    /\ RecentMatching(suite) # <<>>
    /\ Validated(RecentMatching(suite)) = <<>>

\* the check suite gives no workflow reference, and the recent runs of
\* the repository are listed
ReachesRecentRuns(suite) ==
    LET resp == platform.check_suite[suite]
    IN  /\ RequestFailed(resp.status) \/ (resp.json /\ resp.workflow = "none")
        /\ ListingAnswered(platform.recent)

\* C37: when recent runs have the check-suite id asked for and none of
\* them validates, the correlator returns the validated list of all the
\* recent runs; and after every correlator call of get_pr_check_runs that
\* returned runs, the logs asked for are those of the first run returned
C37_FallbackRunsGiveTheLogs ==
    ClientDone("get_pr_check_runs")
    => \A j \in 1..Len(ret.requests) :
          ret.requests[j].endpoint = "check_suite"
          => LET suite == ret.requests[j].id
                 found == get_workflow_runs_by_check_suite(platform, suite)
                 next == j + Len(found.requests)
             IN  /\ (ReachesRecentRuns(suite) /\ NoneValidates(suite))
                    => /\ found.exc = ""
                       /\ found.value = Validated(platform.recent.runs)
                 /\ IF found.exc = "" /\ found.value # <<>>
                    THEN /\ next + 1 <= Len(ret.requests)
                         /\ ret.requests[next + 1].endpoint = "run_logs"
                         /\ ret.requests[next + 1].id = found.value[1].id
                    ELSE \/ next > Len(ret.requests)
                         \/ ret.requests[next].endpoint \notin {"run", "run_logs"}

\* the run of the failing check's suite is gone: the check run carries the
\* logs of the run of the other suite
C37_Witness ==
    /\ ClientDone("get_pr_check_runs")
    /\ NoneValidates(TargetSuite)
    /\ platform.check_runs.runs # <<>>
    /\ platform.check_runs.runs[1].check_suite = TargetSuite
    /\ platform.check_runs.runs[1].output = "null"
    /\ ret.value # <<>>
    /\ ret.value[1].conclusion = "failure"
    /\ ret.value[1].output.set
    /\ ret.value[1].output.text # <<>>
    /\ \E k \in 1..Len(ret.requests) :
          /\ ret.requests[k].endpoint = "run_logs"
          /\ ret.requests[k].id = RunOfSuite(OtherSuite)

----------------------------------------------------------------------------
(* The section of a job log as a state machine: the log of job "build" is *)
(* read from the archive and its section is written                       *)

JobLogInit ==
    /\ log_content \in LogTexts
    /\ last_lines = <<>>
    /\ trim_pc = "read"
    /\ ClientIdle
    /\ RetryIdle
    /\ ScanIdle

WriteSection ==
    /\ trim_pc = "read"
    /\ last_lines' = job_section(ArchiveFile("build", ".txt", log_content))
    /\ trim_pc' = "written"
    /\ UNCHANGED <<log_content, clientVars, retryVars, scanVars>>

JobLogNext == WriteSection

SpecJobLog == JobLogInit /\ [][JobLogNext]_vars

\* the text between the line of the banner and the line break that ends
\* the section
UnderBanner(section) == SubSeq(section, 3, Len(section) - 1)

\* the log has the marker, at its start or after white space only
MarkerAfterNothing(text) ==
    /\ MarkerPositions(text) # {}
    /\ strip(TextBefore(text, FirstMarker(text))) = <<>>

\* C38: the section of a job is its banner, a line break, a text and a
\* line break; for a log whose marker is at the start or preceded by white
\* space only the text is the whole log, and otherwise it has at most 20
\* lines
C38_WholeLogWhenTrimIsEmpty ==
    trim_pc = "written"
    => /\ Len(last_lines) >= 3
       /\ last_lines[1] = Banner("build")
       /\ last_lines[2] = "\n"
       /\ last_lines[Len(last_lines)] = "\n"
       /\ IF MarkerAfterNothing(log_content)
          THEN UnderBanner(last_lines) = log_content
          ELSE Len(splitlines(UnderBanner(last_lines))) <= line_count

\* a log with a blank line, the marker, more lines, a second marker and a
\* closing line stands as a whole under the banner
C38_Witness ==
    /\ trim_pc = "written"
    /\ MarkerAfterNothing(log_content)
    /\ FirstMarker(log_content) > 1
    /\ Cardinality(MarkerPositions(log_content)) = 2
    /\ UnderBanner(last_lines) = log_content

----------------------------------------------------------------------------
(* Properties of a match read before a request fails *)

\* the page was answered with a decodable body
PageAnswered(k) == ~RequestFailed(platform.pages[k].status) /\ platform.pages[k].json

\* the pages of the listing from page k on, along the next links, up to
\* the first page that is not answered or names no next page
RECURSIVE ChainFrom(_)
ChainFrom(k) ==
    IF PageAnswered(k) /\ HasNextLink(k)
    THEN <<k>> \o ChainFrom(CHOOSE k2 \in 1..Len(platform.pages) : NamesAsNext(k, k2))
    ELSE <<k>>

\* the entry is what the lookup looks for
IsMatch(item) ==
    IF call.fn = "find_existing_issues"
    THEN pr_pattern_search(item.title, call.pr_number)
    ELSE ~item.pull_request /\ item.title = call.title

MatchesOn(k) == SelectSeq(platform.pages[k].items, IsMatch)

RECURSIVE MatchesAlong(_)
MatchesAlong(chain) ==
    IF chain = <<>> THEN <<>>
    ELSE (IF PageAnswered(Head(chain)) THEN MatchesOn(Head(chain)) ELSE <<>>)
         \o MatchesAlong(Tail(chain))

\* the listing has a match on a page and a failing request on a later one
MatchBeforeFailure ==
    LET chain == ChainFrom(1)
    IN  \E p, q \in 1..Len(chain) :
           /\ p < q
           /\ PageAnswered(chain[p]) /\ MatchesOn(chain[p]) # <<>>
           /\ ~PageAnswered(chain[q])

\* C39: neither lookup raises and no page is asked for after a failed
\* request.  find_existing_issues returns the matches of the pages read,
\* in their order, also when its last request failed;
\* issue_exists_with_title is False when a request failed and True as
\* soon as a page holds the title, so that no later page is asked for.
\* A match on a page before the failing one is in the result of both.
C39_EarlierMatchSurvivesFailure ==
    (client_pc = "done" /\ call.fn \in IssueLookups)
    => /\ ret.exc = ""
       /\ \A i \in 1..(Len(Asked) - 1) : Asked[i] \in Answered
       /\ call.fn = "find_existing_issues"
          => /\ Asked = ChainFrom(1)
             /\ ret.value = MatchesAlong(ChainFrom(1))
       /\ call.fn = "issue_exists_with_title"
          => /\ LastRequestFailed => ret.value = FALSE
             /\ ret.value = (MatchesAlong(ChainFrom(1)) # <<>>)
             /\ ret.value => MatchesOn(Asked[Len(Asked)]) # <<>>
       /\ MatchBeforeFailure
          => IF call.fn = "find_existing_issues" THEN ret.value # <<>> ELSE ret.value

\* the first page holds the issue with the title and the second page
\* fails: the lookup by title is True and has asked for the first page only
C39_Witness ==
    /\ ClientDone("issue_exists_with_title")
    /\ MatchBeforeFailure
    /\ Len(ChainFrom(1)) = 2
    /\ Asked = <<1>>
    /\ ret.value = TRUE

====
